---- MODULE Spec2Model ----
(***************************************************************************)
(* A model of the towerjumps analysis pipeline: the generator              *)
(* analyze_tower_jumps, its asynchronous adapter                           *)
(* analyze_tower_jumps_stream, and the window classifier functions.        *)
(*                                                                         *)
(* Conventions.                                                            *)
(*   - An Optional value is a sequence of length 0 (None) or 1 (Some(x)).  *)
(*   - Real numbers are exact rationals [num, den] in lowest terms.        *)
(*   - A DataFrame is a sequence of row records, in row order.             *)
(*   - Timestamps of samples are minutes since midnight of the first day.  *)
(***************************************************************************)
EXTENDS Integers, Sequences, FiniteSets, TLC

VARIABLES
    df,        \* the input DataFrame handed to the pipeline
    config,    \* the Config handed to the pipeline
    fault,     \* the defect of this input: the stage whose code raises, if any
    now,       \* the wall clock read by datetime.now()
    gen,       \* gen[r]: the frame of the analyze_tower_jumps generator of run r
    stream,    \* the frame of analyze_tower_jumps_stream and what it has yielded
    proc,      \* the frame of AnalysisEventProcessor.process_stream
    window,    \* a DataFrame handed directly to a function
    args,      \* the other arguments of a function called directly
    verdict    \* what the function called directly returned

vars == <<df, config, fault, now, gen, stream, proc, proc, window, args, verdict>>

-----------------------------------------------------------------------------
(* Bounds of the model. *)

MaxLen == 2      \* rows of an input DataFrame
MaxWindows == 6  \* windows of an input with one row in each window
MaxWin == 4      \* rows of a window handed directly to a classifier
MaxClock == 1    \* ticks of the wall clock
MaxRows == 3     \* rows of a scored DataFrame handed directly to a function
MaxRun == 100    \* windows of a long run
MaxDense == 12   \* rows of a densely sampled window

-----------------------------------------------------------------------------
(* Optional values and exact arithmetic. *)

None == <<>>
Some(x) == <<x>>

Abs(x) == IF x < 0 THEN -x ELSE x

RECURSIVE GCD(_, _)
GCD(a, b) == IF b = 0 THEN a ELSE GCD(b, a % b)

Frac(n, d) ==
    LET g == GCD(Abs(n), Abs(d))
        s == IF d < 0 THEN -1 ELSE 1
    IN  [num |-> s * (n \div g), den |-> s * (d \div g)]

\* NaN: every comparison with it is false.
NaN == [num |-> 0, den |-> 0]

FInt(n) == [num |-> n, den |-> 1]
FAdd(a, b) == Frac(a.num * b.den + b.num * a.den, a.den * b.den)
FSub(a, b) == Frac(a.num * b.den - b.num * a.den, a.den * b.den)
FMul(a, b) == Frac(a.num * b.num, a.den * b.den)
FDiv(a, b) == Frac(a.num * b.den, a.den * b.num)
FLt(a, b) == a.num * b.den < b.num * a.den
FLe(a, b) == a.den # 0 /\ b.den # 0 /\ a.num * b.den <= b.num * a.den
FMin(a, b) == IF FLt(b, a) THEN b ELSE a
FMax(a, b) == IF FLt(a, b) THEN b ELSE a

\* round(x, 1) for x >= 0, in tenths: round half to even.
Round1(x) ==
    LET n10 == x.num * 10
        q == n10 \div x.den
        r2 == 2 * (n10 % x.den)
    IN  IF r2 > x.den \/ (r2 = x.den /\ q % 2 = 1) THEN q + 1 ELSE q

Pad2(n) == IF n < 10 THEN "0" \o ToString(n) ELSE ToString(n)
\* datetime.strftime('%H:%M')
StrfHM(t) == Pad2((t \div 60) % 24) \o ":" \o Pad2(t % 60)
\* datetime.isoformat() of a sample-time value
IsoFormat(t) == "D" \o ToString(t \div 1440) \o "T" \o StrfHM(t) \o ":00"

Last(s) == s[Len(s)]

SeqsUpTo(S, n) == UNION {[1..k -> S] : k \in 0..n}

-----------------------------------------------------------------------------
(* config.py *)

DefaultConfig ==
    [time_window_minutes |-> 15,
     max_speed_kmh |-> FInt(128),
     state_consistency_weight |-> Frac(4, 10),
     duration_weight |-> Frac(3, 10),
     record_count_weight |-> Frac(3, 10),
     min_tower_jump_distance_km |-> FInt(5)]

-----------------------------------------------------------------------------
(* utils.py *)

\* Coordinates in units of 0.0001 degree.
NYC == [latitude |-> Some(407128), longitude |-> Some(-740060)]
LA == [latitude |-> Some(340522), longitude |-> Some(-1182437)]
NoFix == [latitude |-> None, longitude |-> None]
ZeroLat == [latitude |-> Some(0), longitude |-> Some(-740060)]

\* The great-circle distance in km between two modelled coordinates, to 0.1 km.
haversine_distance(lat1, lon1, lat2, lon2) ==
    IF lat1 = lat2 /\ lon1 = lon2 THEN FInt(0) ELSE Frac(39357, 10)

\* A filter that forgets the "!= 0" tests.
filter_notna_only(d) ==
    SelectSeq(d, LAMBDA r : r.latitude # None /\ r.longitude # None)

filter_dataframe_with_location(d) ==
    SelectSeq(d, LAMBDA r :
        /\ r.latitude # None
        /\ r.longitude # None
        /\ r.latitude # Some(0)
        /\ r.longitude # Some(0))

\* DataFrame.sort_values("utc_datetime"): rows with equal keys keep their order.
sort_values(d) ==
    LET n == Len(d)
        Before(j, i) ==
            \/ d[j].utc_datetime < d[i].utc_datetime
            \/ d[j].utc_datetime = d[i].utc_datetime /\ j < i
        rank == [i \in 1..n |-> Cardinality({j \in 1..n : Before(j, i)}) + 1]
    IN  [p \in 1..n |-> d[CHOOSE i \in 1..n : rank[i] = p]]

\* left - right for two Series (functions from index labels to values): the
\* operands are aligned on their index labels; the result has the union of
\* the labels, in ascending order, and NaT (None) under every label that one
\* of the operands lacks.
SeriesSub(left, right) ==
    [k \in (DOMAIN left) \cup (DOMAIN right) |->
        IF k \in DOMAIN left /\ k \in DOMAIN right
        THEN Some(left[k] - right[k])
        ELSE None]

\* Series.values: the values in index order, as an array.
Values(series) ==
    LET labels == DOMAIN series
        n == Cardinality(labels)
        label == [p \in 1..n |->
                     CHOOSE k \in labels : Cardinality({j \in labels : j < k}) = p - 1]
    IN  [p \in 1..n |-> series[label[p]]]

\* The minutes of a time difference as hours; NaT becomes NaN.
HoursOf(diff) == IF diff = None THEN NaN ELSE Frac(diff[1], 60)

\* time_diffs of add_distances_and_speeds: row labels are 1..n here (0..n-1
\* after reset_index in the code).
time_diffs_of(s) ==
    LET n == Len(s)
        later == [k \in 2..n |-> s[k].utc_datetime]
        earlier == [k \in 1..(n - 1) |-> s[k].utc_datetime]
        time_diff_series == SeriesSub(later, earlier)
        values == Values(time_diff_series)
        time_diffs_seconds == IF Len(values) # n - 1 THEN SubSeq(values, 1, n - 1) ELSE values
    IN  [i \in 1..n |-> IF i = 1 \/ n <= 1 THEN FInt(0) ELSE HoursOf(time_diffs_seconds[i - 1])]

\* Metrics written one row too early: row i gets the step from row i to i + 1.
add_distances_and_speeds_shifted(d) ==
    LET s == sort_values(d)
        n == Len(s)
        Metrics(i) ==
            IF i = n
            THEN [distance_km |-> FInt(0), time_diff_hours |-> FInt(0), speed_kmh |-> FInt(0)]
            ELSE [distance_km |-> haversine_distance(s[i].latitude, s[i].longitude,
                                                     s[i + 1].latitude, s[i + 1].longitude),
                  time_diff_hours |-> time_diffs_of(s)[i + 1],
                  speed_kmh |-> FInt(0)]
    IN  [i \in 1..n |->
            [utc_datetime |-> s[i].utc_datetime,
             latitude |-> s[i].latitude,
             longitude |-> s[i].longitude,
             state |-> s[i].state,
             distance_km |-> Metrics(i).distance_km,
             time_diff_hours |-> Metrics(i).time_diff_hours,
             speed_kmh |-> Metrics(i).speed_kmh]]

add_distances_and_speeds(d) ==
    LET s == sort_values(d)
        time_diffs == time_diffs_of(s)
        Metrics(i) ==
            IF i = 1
            THEN [distance_km |-> FInt(0), time_diff_hours |-> time_diffs[1], speed_kmh |-> FInt(0)]
            ELSE LET dist == haversine_distance(s[i - 1].latitude, s[i - 1].longitude,
                                                 s[i].latitude, s[i].longitude)
                     dt == time_diffs[i]
                 IN  [distance_km |-> dist,
                      time_diff_hours |-> dt,
                      speed_kmh |-> IF FLt(FInt(0), dt) THEN FDiv(dist, dt) ELSE FInt(0)]
    IN  [i \in 1..Len(s) |->
            [utc_datetime |-> s[i].utc_datetime,
             latitude |-> s[i].latitude,
             longitude |-> s[i].longitude,
             state |-> s[i].state,
             distance_km |-> Metrics(i).distance_km,
             time_diff_hours |-> Metrics(i).time_diff_hours,
             speed_kmh |-> Metrics(i).speed_kmh]]

\* A detector whose short-elapsed-time test includes 0.1 hours.
add_anomaly_detection_inclusive(d, max_speed, min_distance_km) ==
    [i \in 1..Len(d) |->
        [utc_datetime |-> d[i].utc_datetime,
         latitude |-> d[i].latitude,
         longitude |-> d[i].longitude,
         state |-> d[i].state,
         distance_km |-> d[i].distance_km,
         time_diff_hours |-> d[i].time_diff_hours,
         speed_kmh |-> d[i].speed_kmh,
         is_anomalous |->
            \/ FLt(max_speed, d[i].speed_kmh)
            \/ /\ FLt(min_distance_km, d[i].distance_km)
               /\ FLe(d[i].time_diff_hours, Frac(1, 10))]]

add_anomaly_detection(d, max_speed, min_distance_km) ==
    [i \in 1..Len(d) |->
        [utc_datetime |-> d[i].utc_datetime,
         latitude |-> d[i].latitude,
         longitude |-> d[i].longitude,
         state |-> d[i].state,
         distance_km |-> d[i].distance_km,
         time_diff_hours |-> d[i].time_diff_hours,
         speed_kmh |-> d[i].speed_kmh,
         is_anomalous |->
            \/ FLt(max_speed, d[i].speed_kmh)
            \/ /\ FLt(min_distance_km, d[i].distance_km)
               /\ FLt(d[i].time_diff_hours, Frac(1, 10))]]

\* The point of the window_minutes grid nearest to timestamp t.
BinStart_nearest(t, window_minutes) ==
    ((t + window_minutes \div 2) \div window_minutes) * window_minutes

\* The bin of the window_minutes grid that holds timestamp t.
BinStart(t, window_minutes) == (t \div window_minutes) * window_minutes

\* The groups of pd.Grouper between lo and hi whose group_data is not empty.
BinsFrom(d, lo, hi, window_minutes) ==
    LET count == (hi - lo) \div window_minutes + 1
        groups == [k \in 1..count |-> lo + (k - 1) * window_minutes]
        group_data(b) == SelectSeq(d, LAMBDA r : BinStart(r.utc_datetime, window_minutes) = b)
        occupied == SelectSeq(groups, LAMBDA b : group_data(b) # <<>>)
    IN  [k \in 1..Len(occupied) |-> <<occupied[k], occupied[k] + window_minutes>>]

\* Windows for every bin between the first and the last, empty or not.
create_time_windows_all_bins(d, window_minutes) ==
    IF d = <<>> THEN <<>>
    ELSE LET bins == {BinStart(d[i].utc_datetime, window_minutes) : i \in 1..Len(d)}
             lo == CHOOSE b \in bins : \A c \in bins : b <= c
             hi == CHOOSE b \in bins : \A c \in bins : c <= b
             count == (hi - lo) \div window_minutes + 1
         IN  [k \in 1..count |->
                 <<lo + (k - 1) * window_minutes, lo + k * window_minutes>>]

create_time_windows(d, window_minutes) ==
    IF d = <<>> THEN <<>>
    ELSE LET bins == {BinStart(d[i].utc_datetime, window_minutes) : i \in 1..Len(d)}
             lo == CHOOSE b \in bins : \A c \in bins : b <= c
             hi == CHOOSE b \in bins : \A c \in bins : c <= b
         IN  BinsFrom(d, lo, hi, window_minutes)

-----------------------------------------------------------------------------
(* models.py *)

\* round(x * 10^digits) for x >= 0, half to even.
Scaled(x, digits) ==
    LET scale == IF digits = 1 THEN 10 ELSE 100
        n == x.num * scale
        q == n \div x.den
        r2 == 2 * (n % x.den)
    IN  IF r2 > x.den \/ (r2 = x.den /\ q % 2 = 1) THEN q + 1 ELSE q

\* f"{x:.2f}" for x >= 0
Format2f(x) ==
    LET c == Scaled(x, 2)
    IN  ToString(c \div 100) \o "." \o Pad2(c % 100)

\* f"{x:.1f}" for x >= 0
Format1f(x) ==
    LET c == Scaled(x, 1)
    IN  ToString(c \div 10) \o "." \o ToString(c % 10)

\* "|".join(strings)
RECURSIVE Join(_)
Join(strings) ==
    IF strings = <<>> THEN ""
    ELSE IF Len(strings) = 1 THEN strings[1]
    ELSE strings[1] \o "|" \o Join(Tail(strings))

\* bool(x) of an Optional[float]: None and 0.0 are false.
Truthy(x) == x # None /\ x[1].num # 0

\* TimeInterval.to_csv_row; states_observed is the list as the interval holds it.
to_csv_row(self) ==
    [start_time |-> IsoFormat(self.start_time),
     end_time |-> IsoFormat(self.end_time),
     estimated_state |-> self.estimated_state,
     is_tower_jump |-> IF self.is_tower_jump THEN "yes" ELSE "no",
     confidence_percentage |-> Format1f(FMul(self.confidence, FInt(100))) \o "%",
     record_count |-> ToString(self.record_count),
     states_observed |-> Join(self.states_observed),
     max_distance_km |->
         IF Truthy(self.max_distance_km) THEN Format2f(self.max_distance_km[1]) ELSE "",
     max_speed_kmh |->
         IF Truthy(self.max_speed_kmh) THEN Format2f(self.max_speed_kmh[1]) ELSE ""]

-----------------------------------------------------------------------------
(* events.py *)

\* EventType.<member>.value
EventTypeValue(member) ==
    CASE member = "DATA_LOADING" -> "data_loading"
      [] member = "PROCESSING" -> "processing"
      [] member = "WINDOW_CREATION" -> "window_creation"
      [] member = "ANALYSIS_PROGRESS" -> "analysis_progress"
      [] member = "INTERVAL_COMPLETED" -> "interval_completed"
      [] member = "COMPLETION" -> "completion"
      [] member = "ERROR" -> "error"

AnalysisEvent(type, message, data) ==
    [type |-> type, timestamp |-> now, message |-> message, data |-> data]

\* AnalysisEvent.to_dict; the empty dict is the empty function <<>>.
to_dict(e) ==
    [type |-> EventTypeValue(e.type),
     timestamp |-> "ts" \o ToString(e.timestamp),
     message |-> e.message,
     data |-> IF e.data = None THEN <<>> ELSE e.data[1]]

DataLoadingEvent(message, total_records, records_with_location) ==
    AnalysisEvent("DATA_LOADING", message,
        IF total_records # None
        THEN Some([total_records |-> total_records,
                   records_with_location |-> records_with_location])
        ELSE None)

ProcessingEvent(message, step, progress) ==
    AnalysisEvent("PROCESSING", message, Some([step |-> step, progress |-> progress]))

WindowCreationEvent(message, window_count, window_size_minutes) ==
    AnalysisEvent("WINDOW_CREATION", message,
        Some([window_count |-> window_count, window_size_minutes |-> window_size_minutes]))

\* A progress event that numbers the windows from 0.
AnalysisProgressEvent_zero_based(message, current_window, total_windows, estimated_state, is_tower_jump) ==
    LET progress_pct == IF total_windows > 0
                        THEN Frac((current_window - 1) * 100, total_windows)
                        ELSE FInt(0)
    IN  AnalysisEvent("ANALYSIS_PROGRESS", message,
            Some([current_window |-> current_window - 1,
                  total_windows |-> total_windows,
                  progress_percentage |-> Round1(progress_pct),
                  estimated_state |-> estimated_state,
                  is_tower_jump |-> is_tower_jump]))

AnalysisProgressEvent(message, current_window, total_windows, estimated_state, is_tower_jump) ==
    LET progress_pct == IF total_windows > 0
                        THEN Frac(current_window * 100, total_windows)
                        ELSE FInt(0)
    IN  AnalysisEvent("ANALYSIS_PROGRESS", message,
            Some([current_window |-> current_window,
                  total_windows |-> total_windows,
                  progress_percentage |-> Round1(progress_pct),
                  estimated_state |-> estimated_state,
                  is_tower_jump |-> is_tower_jump]))

IntervalCompletedEvent(message, interval_data) ==
    AnalysisEvent("INTERVAL_COMPLETED", message, Some(interval_data))

\* A completion event that reports the share of jumps as a fraction of 1.
CompletionEvent_fraction(message, summary, total_intervals, tower_jumps) ==
    AnalysisEvent("COMPLETION", message,
        Some([summary |-> summary,
              total_intervals |-> total_intervals,
              tower_jumps_detected |-> tower_jumps,
              tower_jump_percentage |->
                 IF total_intervals > 0
                 THEN Frac(tower_jumps, total_intervals)
                 ELSE FInt(0)]))

CompletionEvent(message, summary, total_intervals, tower_jumps) ==
    AnalysisEvent("COMPLETION", message,
        Some([summary |-> summary,
              total_intervals |-> total_intervals,
              tower_jumps_detected |-> tower_jumps,
              tower_jump_percentage |->
                 IF total_intervals > 0
                 THEN Frac(tower_jumps * 100, total_intervals)
                 ELSE FInt(0)]))

ErrorEvent(message, error_type, error_details) ==
    AnalysisEvent("ERROR", message,
        Some([error_type |-> error_type, error_details |-> error_details]))

-----------------------------------------------------------------------------
(* analyzer.py: the window classifier *)

Range(s) == {s[i] : i \in 1..Len(s)}

\* df[df["state"].notna()]["state"].tolist()
NotNaStates(w) ==
    LET state_records == SelectSeq(w, LAMBDA r : r.state # None)
    IN  [i \in 1..Len(state_records) |-> state_records[i].state[1]]

CountOf(x, s) == Cardinality({i \in 1..Len(s) : s[i] = x})

FirstIndex(x, s) == CHOOSE i \in 1..Len(s) : s[i] = x /\ \A j \in 1..(i - 1) : s[j] # x

\* The largest count, and among equal counts the key inserted last.
MostCommon_last_inserted(s) ==
    CHOOSE x \in Range(s) : \A y \in Range(s) :
        \/ CountOf(x, s) > CountOf(y, s)
        \/ CountOf(x, s) = CountOf(y, s) /\ FirstIndex(x, s) >= FirstIndex(y, s)

\* Counter(s).most_common(1)[0][0] for a non-empty s: the largest count, and
\* among equal counts the key inserted first.
MostCommon(s) ==
    CHOOSE x \in Range(s) : \A y \in Range(s) :
        \/ CountOf(x, s) > CountOf(y, s)
        \/ CountOf(x, s) = CountOf(y, s) /\ FirstIndex(x, s) <= FirstIndex(y, s)

estimate_most_likely_state(w) ==
    IF w = <<>> THEN "Unknown"
    ELSE IF NotNaStates(w) = <<>> THEN "Unknown"
    ELSE MostCommon(NotNaStates(w))

\* A count that compares neighbouring rows without dropping null regions.
count_state_changes_with_nulls(w) ==
    IF w = <<>> THEN 0
    ELSE LET states == [i \in 1..Len(w) |-> w[i].state]
         IN  IF Len(states) < 2 THEN 0
             ELSE Cardinality({i \in 2..Len(states) : states[i] # states[i - 1]})

count_state_changes(w) ==
    IF w = <<>> THEN 0
    ELSE LET states == NotNaStates(w)
         IN  IF Len(states) < 2 THEN 0
             ELSE Cardinality({i \in 2..Len(states) : states[i] # states[i - 1]})

\* A detector that asks for at least one region instead of more than one.
detect_without_region_guard(w, cfg) ==
    IF w = <<>> \/ Len(w) < 2 THEN FALSE
    ELSE LET unique_states == Cardinality(Range(NotNaStates(w)))
             high_speed_count ==
                 Cardinality({i \in 1..Len(w) : FLt(cfg.max_speed_kmh, w[i].speed_kmh)})
             anomalous_count == Cardinality({i \in 1..Len(w) : w[i].is_anomalous})
         IN  IF unique_states >= 1
             THEN IF high_speed_count > 0 THEN TRUE
                  ELSE IF anomalous_count > 0 THEN TRUE
                  ELSE IF count_state_changes(w) > 2 THEN TRUE
                  ELSE FALSE
             ELSE FALSE

\* A detector whose state-change rule fires at 2 changes already.
detect_at_two_changes(w, cfg) ==
    IF w = <<>> \/ Len(w) < 2 THEN FALSE
    ELSE LET unique_states == Cardinality(Range(NotNaStates(w)))
             high_speed_count ==
                 Cardinality({i \in 1..Len(w) : FLt(cfg.max_speed_kmh, w[i].speed_kmh)})
             anomalous_count == Cardinality({i \in 1..Len(w) : w[i].is_anomalous})
         IN  IF unique_states > 1
             THEN IF high_speed_count > 0 THEN TRUE
                  ELSE IF anomalous_count > 0 THEN TRUE
                  ELSE IF count_state_changes(w) >= 2 THEN TRUE
                  ELSE FALSE
             ELSE FALSE

detect_tower_jump_pattern(w, cfg) ==
    IF w = <<>> \/ Len(w) < 2 THEN FALSE
    ELSE LET unique_states == Cardinality(Range(NotNaStates(w)))
             high_speed_count ==
                 Cardinality({i \in 1..Len(w) : FLt(cfg.max_speed_kmh, w[i].speed_kmh)})
             anomalous_count == Cardinality({i \in 1..Len(w) : w[i].is_anomalous})
         IN  IF unique_states > 1
             THEN IF high_speed_count > 0 THEN TRUE
                  ELSE IF anomalous_count > 0 THEN TRUE
                  ELSE IF count_state_changes(w) > 2 THEN TRUE
                  ELSE FALSE
             ELSE FALSE

\* A confidence whose record count factor is not capped at 1.
calculate_confidence_uncapped_count(w, estimated_state, cfg) ==
    IF w = <<>> THEN FInt(0)
    ELSE LET states == NotNaStates(w)
         IN  IF states = <<>> THEN FInt(0)
             ELSE LET state_consistency == Frac(CountOf(estimated_state, states), Len(states))
                      record_count_factor == Frac(Len(w), 10)
                      anomaly_count == Cardinality({i \in 1..Len(w) : w[i].is_anomalous})
                      anomaly_penalty ==
                          FMax(FInt(0), FSub(FInt(1), Frac(anomaly_count, Len(w))))
                      confidence ==
                          FAdd(FAdd(FMul(cfg.state_consistency_weight, state_consistency),
                                    FMul(cfg.record_count_weight, record_count_factor)),
                               FMul(cfg.duration_weight, anomaly_penalty))
                  IN  FMax(FInt(0), FMin(FInt(1), confidence))

\* A confidence that returns the weighted sum as it is.
calculate_confidence_unclamped(w, estimated_state, cfg) ==
    IF w = <<>> THEN FInt(0)
    ELSE LET states == NotNaStates(w)
         IN  IF states = <<>> THEN FInt(0)
             ELSE LET state_consistency == Frac(CountOf(estimated_state, states), Len(states))
                      record_count_factor == FMin(Frac(Len(w), 10), FInt(1))
                      anomaly_count == Cardinality({i \in 1..Len(w) : w[i].is_anomalous})
                      anomaly_penalty ==
                          FMax(FInt(0), FSub(FInt(1), Frac(anomaly_count, Len(w))))
                  IN  FAdd(FAdd(FMul(cfg.state_consistency_weight, state_consistency),
                                FMul(cfg.record_count_weight, record_count_factor)),
                           FMul(cfg.duration_weight, anomaly_penalty))

calculate_confidence(w, estimated_state, cfg) ==
    IF w = <<>> THEN FInt(0)
    ELSE LET states == NotNaStates(w)
         IN  IF states = <<>> THEN FInt(0)
             ELSE LET state_consistency == Frac(CountOf(estimated_state, states), Len(states))
                      record_count_factor == FMin(Frac(Len(w), 10), FInt(1))
                      anomaly_count == Cardinality({i \in 1..Len(w) : w[i].is_anomalous})
                      anomaly_penalty ==
                          FMax(FInt(0), FSub(FInt(1), Frac(anomaly_count, Len(w))))
                      confidence ==
                          FAdd(FAdd(FMul(cfg.state_consistency_weight, state_consistency),
                                    FMul(cfg.record_count_weight, record_count_factor)),
                               FMul(cfg.duration_weight, anomaly_penalty))
                  IN  FMax(FInt(0), FMin(FInt(1), confidence))

RECURSIVE FMaxSeq(_)
FMaxSeq(s) == IF Len(s) = 1 THEN s[1] ELSE FMax(s[1], FMaxSeq(Tail(s)))

\* A window that also takes the samples at its end time.
analyze_time_window_closed_end(d, start_time, end_time, cfg) ==
    LET window_df == SelectSeq(d, LAMBDA r :
                        r.utc_datetime >= start_time /\ r.utc_datetime <= end_time)
    IN  IF window_df = <<>>
        THEN [start_time |-> start_time,
              end_time |-> end_time,
              estimated_state |-> "Unknown",
              is_tower_jump |-> FALSE,
              confidence |-> FInt(0),
              record_count |-> 0,
              states_observed |-> {},
              max_distance_km |-> None,
              max_speed_kmh |-> None]
        ELSE LET estimated_state == estimate_most_likely_state(window_df)
             IN  [start_time |-> start_time,
                  end_time |-> end_time,
                  estimated_state |-> estimated_state,
                  is_tower_jump |-> detect_tower_jump_pattern(window_df, cfg),
                  confidence |-> calculate_confidence(window_df, estimated_state, cfg),
                  record_count |-> Len(window_df),
                  states_observed |-> Range(NotNaStates(window_df)),
                  max_distance_km |->
                      Some(FMaxSeq([i \in 1..Len(window_df) |-> window_df[i].distance_km])),
                  max_speed_kmh |->
                      Some(FMaxSeq([i \in 1..Len(window_df) |-> window_df[i].speed_kmh]))]

\* TimeInterval.states_observed is list(set(...)): its order is not determined
\* by the input, so it is kept as the set.
analyze_time_window(d, start_time, end_time, cfg) ==
    LET window_df == SelectSeq(d, LAMBDA r :
                        r.utc_datetime >= start_time /\ r.utc_datetime < end_time)
    IN  IF window_df = <<>>
        THEN [start_time |-> start_time,
              end_time |-> end_time,
              estimated_state |-> "Unknown",
              is_tower_jump |-> FALSE,
              confidence |-> FInt(0),
              record_count |-> 0,
              states_observed |-> {},
              max_distance_km |-> None,
              max_speed_kmh |-> None]
        ELSE LET estimated_state == estimate_most_likely_state(window_df)
             IN  [start_time |-> start_time,
                  end_time |-> end_time,
                  estimated_state |-> estimated_state,
                  is_tower_jump |-> detect_tower_jump_pattern(window_df, cfg),
                  confidence |-> calculate_confidence(window_df, estimated_state, cfg),
                  record_count |-> Len(window_df),
                  states_observed |-> Range(NotNaStates(window_df)),
                  max_distance_km |->
                      Some(FMaxSeq([i \in 1..Len(window_df) |-> window_df[i].distance_km])),
                  max_speed_kmh |->
                      Some(FMaxSeq([i \in 1..Len(window_df) |-> window_df[i].speed_kmh]))]

RECURSIVE FSumSeq(_)
FSumSeq(s) ==
    IF s = <<>> THEN FInt(0)
    ELSE IF Len(s) = 1 THEN s[1]
    ELSE LET half == Len(s) \div 2
         IN  FAdd(FSumSeq(SubSeq(s, 1, half)), FSumSeq(SubSeq(s, half + 1, Len(s))))

\* list(Counter.keys()): the distinct elements of s in order of first occurrence.
KeysInOrder(s) ==
    LET first == {k \in 1..Len(s) : \A j \in 1..(k - 1) : s[j] # s[k]}
        kept == SelectSeq([k \in 1..Len(s) |-> k], LAMBDA k : k \in first)
    IN  [p \in 1..Len(kept) |-> s[kept[p]]]

\* A summary whose state frequencies count "Unknown" like any region.
generate_analysis_summary_counts_unknown(intervals) ==
    IF intervals = <<>> THEN <<>>
    ELSE LET total_intervals == Len(intervals)
             tower_jump_intervals ==
                 Cardinality({k \in 1..Len(intervals) : intervals[k].is_tower_jump})
             states_frequency == [k \in 1..Len(intervals) |-> intervals[k].estimated_state]
             confidence_scores == [k \in 1..Len(intervals) |-> intervals[k].confidence]
         IN  [total_intervals |-> total_intervals,
              tower_jump_intervals |-> tower_jump_intervals,
              tower_jump_percentage |-> Frac(tower_jump_intervals * 100, total_intervals),
              most_common_state |->
                  IF states_frequency # <<>> THEN MostCommon(states_frequency) ELSE "Unknown",
              average_confidence |->
                  FDiv(FSumSeq(confidence_scores), FInt(Len(confidence_scores))),
              states_observed |-> KeysInOrder(states_frequency)]

\* The empty dict {} is the empty function <<>>.
generate_analysis_summary(intervals) ==
    IF intervals = <<>> THEN <<>>
    ELSE LET total_intervals == Len(intervals)
             tower_jump_intervals ==
                 Cardinality({k \in 1..Len(intervals) : intervals[k].is_tower_jump})
             known == SelectSeq(intervals, LAMBDA iv : iv.estimated_state # "Unknown")
             states_frequency == [k \in 1..Len(known) |-> known[k].estimated_state]
             confidence_scores == [k \in 1..Len(intervals) |-> intervals[k].confidence]
         IN  [total_intervals |-> total_intervals,
              tower_jump_intervals |-> tower_jump_intervals,
              tower_jump_percentage |-> Frac(tower_jump_intervals * 100, total_intervals),
              most_common_state |->
                  IF states_frequency # <<>> THEN MostCommon(states_frequency) ELSE "Unknown",
              average_confidence |->
                  FDiv(FSumSeq(confidence_scores), FInt(Len(confidence_scores))),
              states_observed |-> KeysInOrder(states_frequency)]

-----------------------------------------------------------------------------
(* analyzer.py: analyze_tower_jumps, a generator.  Its frame is suspended  *)
(* at "start" (not yet advanced), at a yield ("y58" is the yield of        *)
(* analyzer.py line 58) or is "returned" (StopIteration was raised).       *)

Runs == {"batch", "stream"}

GenInit ==
    [pc |-> "start",
     events |-> <<>>,             \* what the generator has yielded so far
     location_df |-> <<>>,
     df_with_metrics |-> <<>>,
     df_final |-> <<>>,
     windows |-> <<>>,
     total_windows |-> 0,
     tower_jumps_detected |-> 0,
     i |-> 0,
     interval |-> None,
     intervals |-> <<>>,
     ret |-> None]                \* StopIteration.value once returned

NoFault == [stage |-> "none", window |-> 0, cls |-> "", msg |-> ""]

\* The code of `stage` (for window k of the loop, else k = 0) raises.
Raises(stage, k) == fault.stage = stage /\ fault.window = k

Yield(g, e, pc) == [g EXCEPT !.events = Append(@, e), !.pc = pc]

Return(g, value) == [g EXCEPT !.ret = Some(value), !.pc = "returned"]

\* An error event that reports a fixed kind instead of type(e).__name__.
Except_fixed_kind(g) ==
    Yield(g, ErrorEvent("Analysis failed: " \o fault.msg, "Exception", fault.msg), "y223")

\* except Exception as e: yield ErrorEvent(...)
Except(g) ==
    Yield(g, ErrorEvent("Analysis failed: " \o fault.msg, fault.cls, fault.msg), "y223")

Resume_start(g) ==
    Yield(g, DataLoadingEvent("Starting data filtering...", None, None), "y58")

Resume_y58(g) ==
    IF Raises("filter", 0) THEN Except(g)
    ELSE LET location_df == filter_dataframe_with_location(df)
             g1 == [g EXCEPT !.location_df = location_df]
         IN  IF location_df = <<>>
             THEN Yield(g1, ErrorEvent("No records with location data found", "DATA_ERROR",
                                       "All records are missing latitude/longitude coordinates"),
                        "y64")
             ELSE Yield(g1, DataLoadingEvent("Data filtering completed",
                                             Some(Len(df)), Some(Len(location_df))),
                        "y78")

Resume_y64(g) == Return(g, <<>>)

\* The first processing event labelled with the step of the next stage.
Resume_y78_wrong_step(g) ==
    Yield(g, ProcessingEvent("Calculating distances and speeds...", "anomaly_detection", None),
          "y83")

Resume_y78(g) ==
    Yield(g, ProcessingEvent("Calculating distances and speeds...", "distance_calculation", None),
          "y83")

Resume_y83(g) ==
    IF Raises("metrics", 0) THEN Except(g)
    ELSE Yield([g EXCEPT !.df_with_metrics = add_distances_and_speeds(g.location_df)],
               ProcessingEvent("Distance and speed calculation completed",
                               "distance_calculation", Some(100)),
               "y92")

Resume_y92(g) ==
    Yield(g, ProcessingEvent("Detecting movement anomalies...", "anomaly_detection", None), "y99")

Resume_y99(g) ==
    IF Raises("anomaly", 0) THEN Except(g)
    ELSE Yield([g EXCEPT !.df_final =
                    add_anomaly_detection(g.df_with_metrics, config.max_speed_kmh,
                                          config.min_tower_jump_distance_km)],
               ProcessingEvent("Anomaly detection completed", "anomaly_detection", Some(100)),
               "y110")

\* The windowing step announced under a name of its own.
Resume_y110_windowing_step(g) ==
    Yield(g, ProcessingEvent("Creating time windows...", "windowing", None), "y119")

Resume_y110(g) ==
    Yield(g, ProcessingEvent("Creating time windows...", "window_creation", None), "y119")

Resume_y119(g) ==
    IF Raises("windowing", 0) THEN Except(g)
    ELSE LET windows == create_time_windows(g.df_final, config.time_window_minutes)
         IN  Yield([g EXCEPT !.windows = windows],
                   WindowCreationEvent("Created " \o ToString(Len(windows)) \o " time windows",
                                       Len(windows), config.time_window_minutes),
                   "y129")

\* Step 6 of the pipeline, after the loop.
Summarise(g) ==
    IF Raises("summary", 0) THEN Except(g)
    ELSE Yield(g, CompletionEvent("Analysis completed successfully",
                                  generate_analysis_summary(g.intervals),
                                  Len(g.intervals), g.tower_jumps_detected),
               "y210")

\* One iteration of the loop over enumerate(windows, 1), up to its first yield.
\* A TimeInterval is an object without __bool__ or __len__: `if interval:` holds.
AnalyzeWindow(g, i) ==
    IF Raises("classify", i) THEN Except([g EXCEPT !.i = i])
    ELSE LET window_start == g.windows[i][1]
             window_end == g.windows[i][2]
             interval == analyze_time_window(g.df_final, window_start, window_end, config)
             g1 == [g EXCEPT !.i = i,
                             !.interval = Some(interval),
                             !.intervals = Append(@, interval),
                             !.tower_jumps_detected =
                                 IF interval.is_tower_jump THEN @ + 1 ELSE @]
         IN  Yield(g1,
                   AnalysisProgressEvent(
                       "Analyzed window " \o ToString(i) \o "/" \o ToString(g.total_windows)
                           \o ": " \o interval.estimated_state,
                       i, g.total_windows,
                       Some(interval.estimated_state), Some(interval.is_tower_jump)),
                   "y166")

\* A marker at the first window, the quarters and the last window only.
CoarseMarker_without_hundreds(i, total_windows) ==
    i \in {1, total_windows \div 4, total_windows \div 2,
           (total_windows * 3) \div 4, total_windows}

\* The condition of the coarse progress marker, analyzer.py line 186.
CoarseMarker(i, total_windows) ==
    \/ i % 100 = 0
    \/ i \in {1, total_windows \div 4, total_windows \div 2,
              (total_windows * 3) \div 4, total_windows}

\* A loop that stops one window early.
Continue_off_by_one(g) ==
    IF g.i < g.total_windows - 1 THEN AnalyzeWindow(g, g.i + 1) ELSE Summarise(g)

\* The next iteration of the loop, or what follows the loop.
Continue(g) == IF g.i < g.total_windows THEN AnalyzeWindow(g, g.i + 1) ELSE Summarise(g)

Resume_y129(g) == Continue([g EXCEPT !.total_windows = Len(g.windows), !.tower_jumps_detected = 0])

Resume_y166(g) ==
    LET interval == g.interval[1]
    IN  Yield(g,
              IntervalCompletedEvent(
                  "Completed interval " \o StrfHM(interval.start_time) \o " - "
                      \o StrfHM(interval.end_time),
                  [start_time |-> IsoFormat(interval.start_time),
                   end_time |-> IsoFormat(interval.end_time),
                   estimated_state |-> interval.estimated_state,
                   is_tower_jump |-> interval.is_tower_jump,
                   confidence |-> Round1(FMul(interval.confidence, FInt(100))),
                   record_count |-> interval.record_count]),
              "y174")

Resume_y174(g) ==
    IF CoarseMarker(g.i, g.total_windows)
    THEN Yield(g,
               AnalysisProgressEvent(
                   "Processing progress: " \o ToString(g.i) \o "/" \o ToString(g.total_windows)
                       \o " windows analyzed",
                   g.i, g.total_windows, None, None),
               "y187")
    ELSE Continue(g)

Resume_y187(g) == Continue(g)

\* A generator that ends without handing back its intervals.
Resume_y210_returns_empty(g) == Return(g, <<>>)

Resume_y210(g) == Return(g, g.intervals)

\* An error path that hands back the intervals classified so far.
Resume_y223_returns_partial(g) == Return(g, g.intervals)

Resume_y223(g) == Return(g, <<>>)

-----------------------------------------------------------------------------
(* cli.py: AnalysisEventProcessor.process_stream and _dispatch_event *)

\* The frame of a process_stream call; "off" when nobody called it.
ProcOff ==
    [pc |-> "off",
     event |-> None,            \* the event next(stream) returned
     calls |-> <<>>,            \* the handler calls made so far, in order
     pulled |-> 0,              \* the next(stream) calls made so far
     tower_jumps_count |-> 0,   \* result_collector.tower_jumps_count
     intervals |-> <<>>,        \* result_collector.intervals
     ret |-> None,              \* the returned list
     raised |-> None]           \* str() of the AnalysisError raised

\* event = next(stream)
Pulled(p, event) == [p EXCEPT !.event = Some(event), !.pulled = @ + 1, !.pc = "dispatch"]

\* A StopIteration handler that forgets e.value.
Stopped_drops_value(p, value) ==
    [p EXCEPT !.pulled = @ + 1, !.intervals = <<>>, !.ret = Some(<<>>), !.pc = "returned"]

\* except StopIteration as e: ...; break; return result_collector.get_intervals()
\* value is e.value: None, or Some(list).
Stopped(p, value) ==
    LET intervals == IF value # None THEN value[1] ELSE <<>>
    IN  [p EXCEPT !.pulled = @ + 1,
                  !.intervals = intervals,
                  !.ret = Some(intervals),
                  !.pc = "returned"]

\* The handler _dispatch_event calls for an event of the given type.
HandlerOf(type) ==
    CASE type = "DATA_LOADING" -> "progress_manager.update_data_loading"
      [] type = "PROCESSING" -> "progress_manager.update_processing"
      [] type = "WINDOW_CREATION" -> "progress_manager.update_window_creation"
      [] type = "ANALYSIS_PROGRESS" -> "progress_manager.update_analysis_progress"
      [] type = "INTERVAL_COMPLETED" -> "result_collector.handle_interval_completed"
      [] type = "COMPLETION" -> "progress_manager.update_completion"
      [] type = "ERROR" -> "progress_manager.handle_error"
      [] OTHER -> "none"

\* AnalysisError(error_type, message): str() of the exception.
AnalysisError(error_type, message) == error_type \o ": " \o message

\* A dispatcher that reports an error event and carries on.
dispatch_event_keeps_going(p, event) ==
    LET called == [p EXCEPT !.calls = Append(@, [handler |-> HandlerOf(event.type),
                                                 event |-> event]),
                            !.event = None]
    IN  IF event.type = "INTERVAL_COMPLETED"
        THEN [called EXCEPT !.tower_jumps_count =
                                IF event.data[1].is_tower_jump THEN @ + 1 ELSE @,
                            !.pc = "next"]
        ELSE [called EXCEPT !.pc = "next"]

\* _dispatch_event, and the continuation of the loop of process_stream.
dispatch_event(p, event) ==
    LET called == [p EXCEPT !.calls = Append(@, [handler |-> HandlerOf(event.type),
                                                 event |-> event]),
                            !.event = None]
    IN  IF event.type = "INTERVAL_COMPLETED"
        THEN [called EXCEPT !.tower_jumps_count =
                                IF event.data[1].is_tower_jump THEN @ + 1 ELSE @,
                            !.pc = "next"]
        ELSE IF event.type = "ERROR"
        THEN [called EXCEPT !.raised = Some(AnalysisError(event.data[1].error_type,
                                                          event.message)),
                            !.pc = "raised"]
        ELSE [called EXCEPT !.pc = "next"]

-----------------------------------------------------------------------------
(* analyzer.py: _next_with_stop and analyze_tower_jumps_stream *)

StreamInit ==
    [pc |-> "init",
     result |-> None,        \* the value of `await async_next(generator)`
     final_value |-> None,
     exc |-> None,           \* the exception caught by `except Exception as e`
     out |-> <<>>]           \* what the async generator has yielded so far

\* The call analyze_tower_jumps(df, config) raises (the function is patched).
RaisesOnCreate == fault.stage = "create"

\* The next(generator) call that would follow the events g has yielded raises
\* out of the generator.
RaisesOnNext(g) == fault.stage = "next" /\ fault.window = Len(g.events) + 1

\* isinstance(e, Exception)
IsException(cls) == cls \notin {"KeyboardInterrupt", "SystemExit", "GeneratorExit"}

\* The try statement of analyze_tower_jumps_stream meets exception e: the
\* except clause takes an Exception, anything else leaves the function.
Caught(st) ==
    IF IsException(fault.cls)
    THEN [st EXCEPT !.exc = Some([cls |-> fault.cls, msg |-> fault.msg]), !.pc = "except"]
    ELSE [st EXCEPT !.pc = "raised"]

\* What _next_with_stop returns after the generator moved to frame g: the
\* yielded event, or the tuple (_STREAM_SENTINEL, value) on StopIteration.
\* A helper that hands back the first event the generator ever yielded.
next_with_stop_first(g) ==
    IF g.pc = "returned"
    THEN [is_tuple |-> TRUE, item |-> <<"_STREAM_SENTINEL", g.ret[1]>>]
    ELSE [is_tuple |-> FALSE, item |-> <<Head(g.events)>>]

next_with_stop(g) ==
    IF g.pc = "returned"
    THEN [is_tuple |-> TRUE, item |-> <<"_STREAM_SENTINEL", g.ret[1]>>]
    ELSE [is_tuple |-> FALSE, item |-> <<Last(g.events)>>]

\* isinstance(result, tuple) and result and result[0] is _STREAM_SENTINEL
IsSentinel(result) ==
    result.is_tuple /\ result.item # <<>> /\ result.item[1] = "_STREAM_SENTINEL"

\* Run r's generator may be advanced: the stream advances it once per
\* `await async_next(generator)`, process_stream once per next(stream), and
\* a consumer that is neither drains it in a loop.
Driven(r) ==
    IF r = "stream" THEN stream.pc = "awaiting" ELSE proc.pc \in {"off", "next"}

\* next(generator) took run r's generator from its frame to g2.
Advance(r, g2) ==
    /\ Driven(r)
    /\ ~RaisesOnNext(gen[r])
    /\ gen' = [gen EXCEPT ![r] = g2]
    /\ stream' = IF r = "stream"
                 THEN [stream EXCEPT !.result = Some(next_with_stop(g2)), !.pc = "got"]
                 ELSE stream
    /\ proc' = IF r = "batch" /\ proc.pc = "next"
               THEN IF g2.pc = "returned" THEN Stopped(proc, g2.ret) ELSE Pulled(proc, Last(g2.events))
               ELSE proc
    /\ UNCHANGED <<df, config, fault, now, window, args, verdict>>

StartFiltering(r) == gen[r].pc = "start" /\ Advance(r, Resume_start(gen[r]))
FilterLocations(r) == gen[r].pc = "y58" /\ Advance(r, Resume_y58(gen[r]))
ReturnAfterDataError(r) == gen[r].pc = "y64" /\ Advance(r, Resume_y64(gen[r]))
StartMetrics(r) == gen[r].pc = "y78" /\ Advance(r, Resume_y78(gen[r]))
ComputeMetrics(r) == gen[r].pc = "y83" /\ Advance(r, Resume_y83(gen[r]))
StartAnomalies(r) == gen[r].pc = "y92" /\ Advance(r, Resume_y92(gen[r]))
DetectAnomalies(r) == gen[r].pc = "y99" /\ Advance(r, Resume_y99(gen[r]))
StartWindowing(r) == gen[r].pc = "y110" /\ Advance(r, Resume_y110(gen[r]))
CreateWindows(r) == gen[r].pc = "y119" /\ Advance(r, Resume_y119(gen[r]))
EnterLoop(r) == gen[r].pc = "y129" /\ Advance(r, Resume_y129(gen[r]))
CompleteInterval(r) == gen[r].pc = "y166" /\ Advance(r, Resume_y166(gen[r]))
AfterInterval(r) == gen[r].pc = "y174" /\ Advance(r, Resume_y174(gen[r]))
AfterMarker(r) == gen[r].pc = "y187" /\ Advance(r, Resume_y187(gen[r]))
ReturnIntervals(r) == gen[r].pc = "y210" /\ Advance(r, Resume_y210(gen[r]))
ReturnAfterError(r) == gen[r].pc = "y223" /\ Advance(r, Resume_y223(gen[r]))

\* generator = analyze_tower_jumps(df, config); the first await async_next.
StreamStart ==
    /\ stream.pc = "init"
    /\ stream' = IF RaisesOnCreate THEN Caught(stream) ELSE [stream EXCEPT !.pc = "awaiting"]
    /\ UNCHANGED <<df, config, fault, now, gen, proc, window, args, verdict>>

\* await async_next(generator) raises what next(generator) raised.
StreamNextRaises ==
    /\ stream.pc = "awaiting"
    /\ gen["stream"].pc \notin {"returned", "raised"}
    /\ RaisesOnNext(gen["stream"])
    /\ gen' = [gen EXCEPT !["stream"].pc = "raised"]
    /\ stream' = Caught(stream)
    /\ UNCHANGED <<df, config, fault, now, proc, window, args, verdict>>

\* An adapter without the try statement.
StreamExcept_reraises ==
    /\ stream.pc = "except"
    /\ stream' = [stream EXCEPT !.pc = "raised"]
    /\ UNCHANGED <<df, config, fault, now, gen, proc, window, args, verdict>>

\* except Exception as e: yield ErrorEvent(...)
StreamExcept ==
    /\ stream.pc = "except"
    /\ LET e == stream.exc[1]
       IN  stream' = [stream EXCEPT
                         !.out = Append(@, ErrorEvent("Analysis error: " \o e.msg, e.cls, e.msg)),
                         !.pc = "failed"]
    /\ UNCHANGED <<df, config, fault, now, gen, proc, window, args, verdict>>

\* The consumer resumes the adapter after the error event: the function ends.
StreamEnd ==
    /\ stream.pc = "failed"
    /\ stream' = [stream EXCEPT !.pc = "done"]
    /\ UNCHANGED <<df, config, fault, now, gen, proc, window, args, verdict>>

\* A loop body that yields a result only when its data is truthy.
StreamHandle_skips_empty_data ==
    /\ stream.pc = "got"
    /\ LET result == stream.result[1]
       IN  stream' = IF IsSentinel(result)
                     THEN [stream EXCEPT !.final_value = Some(result.item[2]), !.pc = "done"]
                     ELSE IF result.item[1].data = None
                     THEN [stream EXCEPT !.pc = "yielded"]
                     ELSE [stream EXCEPT !.out = Append(@, result.item[1]), !.pc = "yielded"]
    /\ UNCHANGED <<df, config, fault, now, gen, proc, window, args, verdict>>

\* The body of the while loop after the await: break on the sentinel, else yield.
StreamHandle ==
    /\ stream.pc = "got"
    /\ LET result == stream.result[1]
       IN  stream' = IF IsSentinel(result)
                     THEN [stream EXCEPT !.final_value = Some(result.item[2]), !.pc = "done"]
                     ELSE [stream EXCEPT !.out = Append(@, result.item[1]), !.pc = "yielded"]
    /\ UNCHANGED <<df, config, fault, now, gen, proc, window, args, verdict>>

\* await asyncio.sleep(0), then the next await async_next(generator).
StreamSleep ==
    /\ stream.pc = "yielded"
    /\ stream' = [stream EXCEPT !.pc = "awaiting"]
    /\ UNCHANGED <<df, config, fault, now, gen, proc, window, args, verdict>>

\* The wall clock advances between any two steps.
Tick ==
    /\ now < MaxClock
    /\ now' = now + 1
    /\ UNCHANGED <<df, config, fault, gen, stream, proc, window, args, verdict>>

-----------------------------------------------------------------------------
(* process_stream consuming a stream of events. *)

\* analyze_tower_jumps is replaced by a test double: args holds the events the
\* double yields and the value it returns.
Mocked == args # <<>>

\* with progress_manager: stream = analyze_tower_jumps(records, config)
ProcStart ==
    /\ proc.pc = "init"
    /\ proc' = [proc EXCEPT !.pc = "next"]
    /\ UNCHANGED <<df, config, fault, now, gen, stream, window, args, verdict>>

\* next(stream) on the test double.
MockNext ==
    /\ proc.pc = "next"
    /\ Mocked
    /\ proc' = IF proc.pulled < Len(args.events)
               THEN Pulled(proc, args.events[proc.pulled + 1])
               ELSE Stopped(proc, args.value)
    /\ UNCHANGED <<df, config, fault, now, gen, stream, window, args, verdict>>

\* self._dispatch_event(event, progress_manager, result_collector)
Dispatch ==
    /\ proc.pc = "dispatch"
    /\ proc' = dispatch_event(proc, proc.event[1])
    /\ UNCHANGED <<df, config, fault, now, gen, stream, window, args, verdict>>

-----------------------------------------------------------------------------
(* A classifier function called directly on a window. *)

DetectTowerJumpPattern ==
    /\ verdict = None
    /\ verdict' = Some([fn |-> "detect_tower_jump_pattern",
                        value |-> detect_tower_jump_pattern(window, config)])
    /\ UNCHANGED <<df, config, fault, now, gen, stream, proc, window, args>>

CountStateChanges ==
    /\ verdict = None
    /\ verdict' = Some([fn |-> "count_state_changes", value |-> count_state_changes(window)])
    /\ UNCHANGED <<df, config, fault, now, gen, stream, proc, window, args>>

EstimateMostLikelyState ==
    /\ verdict = None
    /\ verdict' = Some([fn |-> "estimate_most_likely_state",
                        value |-> estimate_most_likely_state(window)])
    /\ UNCHANGED <<df, config, fault, now, gen, stream, proc, window, args>>

AnalyzeTimeWindow ==
    /\ verdict = None
    /\ verdict' = Some([fn |-> "analyze_time_window",
                        value |-> analyze_time_window(window, args.start_time,
                                                      args.end_time, config)])
    /\ UNCHANGED <<df, config, fault, now, gen, stream, proc, window, args>>

CalculateConfidence ==
    /\ verdict = None
    /\ \E estimated_state \in {"NY", "CA", "Unknown"} :
          verdict' = Some([fn |-> "calculate_confidence",
                           estimated_state |-> estimated_state,
                           value |-> calculate_confidence(window, estimated_state, config)])
    /\ UNCHANGED <<df, config, fault, now, gen, stream, proc, window, args>>

\* The utility functions called directly: on df, or on the scored frame window.
AddDistancesAndSpeeds ==
    /\ verdict = None
    /\ window = <<>>
    /\ verdict' = Some([fn |-> "add_distances_and_speeds",
                        value |-> add_distances_and_speeds(df)])
    /\ UNCHANGED <<df, config, fault, now, gen, stream, proc, window, args>>

AddAnomalyDetection ==
    /\ verdict = None
    /\ df = <<>>
    /\ verdict' = Some([fn |-> "add_anomaly_detection",
                        value |-> add_anomaly_detection(window, args.max_speed_kmh,
                                                        args.min_distance_km)])
    /\ UNCHANGED <<df, config, fault, now, gen, stream, proc, window, args>>

\* add_anomaly_detection applied to what add_distances_and_speeds returns.
ScoreAndDetect ==
    /\ verdict = None
    /\ window = <<>>
    /\ verdict' = Some([fn |-> "score_and_detect",
                        value |-> add_anomaly_detection(add_distances_and_speeds(df),
                                                        args.max_speed_kmh,
                                                        args.min_distance_km)])
    /\ UNCHANGED <<df, config, fault, now, gen, stream, proc, window, args>>

CreateTimeWindows ==
    /\ verdict = None
    /\ window = <<>>
    /\ verdict' = Some([fn |-> "create_time_windows",
                        value |-> create_time_windows(df, args.window_minutes)])
    /\ UNCHANGED <<df, config, fault, now, gen, stream, proc, window, args>>

GenerateAnalysisSummary ==
    /\ verdict = None
    /\ verdict' = Some([fn |-> "generate_analysis_summary",
                        value |-> generate_analysis_summary(args.intervals)])
    /\ UNCHANGED <<df, config, fault, now, gen, stream, proc, window, args>>

ToCsvRow ==
    /\ verdict = None
    /\ verdict' = Some([fn |-> "to_csv_row", value |-> to_csv_row(args.interval)])
    /\ UNCHANGED <<df, config, fault, now, gen, stream, proc, window, args>>

-----------------------------------------------------------------------------
(* Inputs. *)

Times == {0, 5, 20}
Regions == {"NY", "CA"}

Sample(t, c, st) ==
    [utc_datetime |-> t, latitude |-> c.latitude, longitude |-> c.longitude, state |-> st]

LocatedSamples ==
    {Sample(t, c, st) : t \in Times, c \in {NYC, LA}, st \in {None} \cup {Some(x) : x \in Regions}}

UnlocatedSamples == {Sample(0, NoFix, Some("NY")), Sample(5, ZeroLat, None)}

Samples == LocatedSamples \cup UnlocatedSamples

Faults ==
    {NoFault,
     [stage |-> "filter", window |-> 0, cls |-> "ValueError", msg |-> "Test exception"],
     [stage |-> "metrics", window |-> 0, cls |-> "KeyError", msg |-> "'utc_datetime'"],
     [stage |-> "anomaly", window |-> 0, cls |-> "TypeError", msg |-> "bad threshold"],
     [stage |-> "windowing", window |-> 0, cls |-> "ValueError", msg |-> "bad frequency"],
     [stage |-> "classify", window |-> 1, cls |-> "KeyError", msg |-> "'state'"],
     [stage |-> "classify", window |-> 2, cls |-> "TypeError", msg |-> "bad weight"],
     [stage |-> "summary", window |-> 0, cls |-> "TypeError", msg |-> "bad confidence"]}

\* Rows of a window as the classifier sees them.
WindowRows ==
    {[state |-> st, speed_kmh |-> FInt(m[1]), is_anomalous |-> m[2]] :
        st \in {None, Some("NY"), Some("CA"), Some("TX"), Some("FL")},
        m \in {<<50, FALSE>>, <<200, FALSE>>, <<50, TRUE>>}}

\* n samples, one in each of n consecutive windows.
OnePerWindow(n) ==
    [k \in 1..n |->
        Sample(DefaultConfig.time_window_minutes * (k - 1) + 5, NYC,
               IF k % 2 = 1 THEN Some("NY") ELSE Some("CA"))]

\* Three samples of one window, the last one far from the others.
JumpInput ==
    <<Sample(0, NYC, Some("NY")), Sample(5, NYC, Some("CA")), Sample(10, LA, Some("NY"))>>

\* The same three samples and a single sample in a later window.
JumpThenCalm == Append(JumpInput, Sample(20, LA, Some("NY")))

Inputs(samples) ==
    SeqsUpTo(samples, MaxLen) \cup {OnePerWindow(n) : n \in 1..MaxWindows}
        \cup {JumpInput, JumpThenCalm}

InitPipeline(inputs) ==
    /\ df \in inputs
    /\ config = DefaultConfig
    /\ fault \in Faults
    /\ now = 0
    /\ gen = [r \in Runs |-> GenInit]
    /\ stream = StreamInit
    /\ proc = ProcOff
    /\ window = <<>>
    /\ args = <<>>
    /\ verdict = None

Init == InitPipeline(Inputs(Samples))

GenNext(r) ==
    \/ StartFiltering(r)
    \/ FilterLocations(r)
    \/ ReturnAfterDataError(r)
    \/ StartMetrics(r)
    \/ ComputeMetrics(r)
    \/ StartAnomalies(r)
    \/ DetectAnomalies(r)
    \/ StartWindowing(r)
    \/ CreateWindows(r)
    \/ EnterLoop(r)
    \/ CompleteInterval(r)
    \/ AfterInterval(r)
    \/ AfterMarker(r)
    \/ ReturnIntervals(r)
    \/ ReturnAfterError(r)

\* A batch run: the consumer drains the generator.
Next == GenNext("batch")

Spec == Init /\ [][Next]_vars

\* A streaming run: the async generator advances the generator one event at a
\* time and yields each event to its consumer.
StreamNext == StreamStart \/ StreamHandle \/ StreamSleep \/ GenNext("stream")

FewSamples ==
    {Sample(0, NYC, Some("NY")), Sample(5, LA, Some("CA")), Sample(20, NYC, None),
     Sample(0, NoFix, Some("NY"))}

InitStream == InitPipeline(Inputs(FewSamples))

NextStream == StreamNext

SpecStream == InitStream /\ [][NextStream]_vars

\* A streaming run over a pipeline that raises when it is created or advanced.
AdapterFaults ==
    {[stage |-> "create", window |-> 0, cls |-> "Exception", msg |-> "Test exception"],
     [stage |-> "next", window |-> 1, cls |-> "TypeError", msg |-> "object has no len()"],
     [stage |-> "next", window |-> 3, cls |-> "RuntimeError", msg |-> "worker failed"],
     [stage |-> "next", window |-> 2, cls |-> "KeyboardInterrupt", msg |-> ""]}

InitStreamFault ==
    /\ df \in Inputs(FewSamples)
    /\ config = DefaultConfig
    /\ fault \in AdapterFaults \cup {NoFault, CHOOSE f \in Faults : f.stage = "metrics"}
    /\ now = 0
    /\ gen = [r \in Runs |-> GenInit]
    /\ stream = StreamInit
    /\ proc = ProcOff
    /\ window = <<>>
    /\ args = <<>>
    /\ verdict = None

NextStreamFault == StreamNext \/ StreamNextRaises \/ StreamExcept \/ StreamEnd

SpecStreamFault == InitStreamFault /\ [][NextStreamFault]_vars

\* The same input analysed twice: drained in batch mode, then streamed.
RunSamples == {Sample(0, NYC, Some("NY")), Sample(20, LA, Some("CA")), Sample(0, NoFix, Some("NY"))}

InitRuns == InitPipeline(SeqsUpTo(RunSamples, MaxLen))

StreamAfterBatch == gen["batch"].pc = "returned" /\ StreamNext

NextRuns == Tick \/ GenNext("batch") \/ StreamAfterBatch

SpecRuns == InitRuns /\ [][NextRuns]_vars

\* A classifier function applied to a window.
InitDetect ==
    /\ df = <<>>
    /\ config = DefaultConfig
    /\ fault = NoFault
    /\ now = 0
    /\ gen = [r \in Runs |-> GenInit]
    /\ stream = StreamInit
    /\ proc = ProcOff
    /\ \E n \in 0..MaxWin : window \in [1..n -> WindowRows]
    /\ args = <<>>
    /\ verdict = None

NextDetect == DetectTowerJumpPattern \/ CountStateChanges

SpecDetect == InitDetect /\ [][NextDetect]_vars

\* Rows of a window with or without a region.
RegionRows ==
    {[state |-> st, speed_kmh |-> FInt(0), is_anomalous |-> FALSE] :
        st \in {None, Some("NY"), Some("CA"), Some("TX")}}

InitEstimate ==
    /\ df = <<>>
    /\ config = DefaultConfig
    /\ fault = NoFault
    /\ now = 0
    /\ gen = [r \in Runs |-> GenInit]
    /\ stream = StreamInit
    /\ proc = ProcOff
    /\ \E n \in 0..MaxWin : window \in [1..n -> RegionRows]
    /\ args = <<>>
    /\ verdict = None

NextEstimate == EstimateMostLikelyState

SpecEstimate == InitEstimate /\ [][NextEstimate]_vars

\* Rows of a DataFrame after add_distances_and_speeds and add_anomaly_detection.
ScoredRows ==
    {[utc_datetime |-> t, state |-> st,
      distance_km |-> m[1], speed_kmh |-> m[2], is_anomalous |-> m[3]] :
        t \in {0, 15},
        st \in {None, Some("NY"), Some("CA")},
        m \in {<<FInt(0), FInt(0), FALSE>>, <<Frac(39357, 10), FInt(200), TRUE>>}}

Spans ==
    {[start_time |-> 0, end_time |-> 15],
     [start_time |-> 15, end_time |-> 30],
     [start_time |-> 5, end_time |-> 15]}

Weighted(a, b, c) ==
    [DefaultConfig EXCEPT !.state_consistency_weight = a,
                          !.duration_weight = b,
                          !.record_count_weight = c]

Configs ==
    {DefaultConfig,
     Weighted(FInt(2), FInt(2), FInt(2)),
     Weighted(FInt(-1), FInt(-1), FInt(-1)),
     Weighted(FInt(1), FInt(-2), Frac(1, 2))}

\* Windows of MaxDense rows: the first k in NY, the others in CA, the first a
\* anomalous.
DenseWindows ==
    {[i \in 1..MaxDense |->
        [utc_datetime |-> 0,
         state |-> IF i <= k THEN Some("NY") ELSE Some("CA"),
         distance_km |-> FInt(0), speed_kmh |-> FInt(0), is_anomalous |-> i <= a]] :
        k \in {0, 6, MaxDense}, a \in {0, 3}}

\* analyze_time_window or calculate_confidence applied to a scored DataFrame.
InitWindow ==
    /\ df = <<>>
    /\ config \in Configs
    /\ fault = NoFault
    /\ now = 0
    /\ gen = [r \in Runs |-> GenInit]
    /\ stream = StreamInit
    /\ proc = ProcOff
    /\ \/ \E n \in 0..MaxRows : window \in [1..n -> ScoredRows]
       \/ window \in DenseWindows
    /\ args \in Spans
    /\ verdict = None

NextWindow == AnalyzeTimeWindow \/ CalculateConfidence

SpecWindow == InitWindow /\ [][NextWindow]_vars

\* Located samples for the utility functions.
UtilSamples == {Sample(t, c, Some("NY")) : t \in {0, 5, 60}, c \in {NYC, LA}}

\* Rows of a frame with metrics, as add_anomaly_detection takes them.
MetricRows ==
    {[utc_datetime |-> 0, latitude |-> NYC.latitude, longitude |-> NYC.longitude,
      state |-> Some("NY"), distance_km |-> dist, time_diff_hours |-> dt, speed_kmh |-> v] :
        dist \in {FInt(0), FInt(5), Frac(39357, 10)},
        dt \in {FInt(0), Frac(1, 10), FInt(1), NaN},
        v \in {FInt(0), FInt(128), FInt(200)}}

Thresholds ==
    {[max_speed_kmh |-> m[1], min_distance_km |-> m[2], window_minutes |-> m[3]] :
        m \in {<<FInt(128), FInt(5), 15>>, <<FInt(0), FInt(0), 10>>,
                <<FInt(-1), FInt(-1), 15>>}}

InitUtils ==
    /\ \/ /\ \E n \in 0..MaxRows : df \in [1..n -> UtilSamples]
          /\ window = <<>>
       \/ /\ df = <<>>
          /\ \E n \in 1..MaxLen : window \in [1..n -> MetricRows]
    /\ config = DefaultConfig
    /\ fault = NoFault
    /\ now = 0
    /\ gen = [r \in Runs |-> GenInit]
    /\ stream = StreamInit
    /\ proc = ProcOff
    /\ args \in Thresholds
    /\ verdict = None

NextUtils == AddDistancesAndSpeeds \/ AddAnomalyDetection \/ ScoreAndDetect \/ CreateTimeWindows

SpecUtils == InitUtils /\ [][NextUtils]_vars

\* The fields of a TimeInterval that generate_analysis_summary reads.
SummaryIntervals ==
    {[estimated_state |-> st, is_tower_jump |-> j, confidence |-> c] :
        st \in {"NY", "CA", "Unknown"}, j \in BOOLEAN, c \in {FInt(0), Frac(3, 4)}}

InitSummary ==
    /\ df = <<>>
    /\ config = DefaultConfig
    /\ fault = NoFault
    /\ now = 0
    /\ gen = [r \in Runs |-> GenInit]
    /\ stream = StreamInit
    /\ proc = ProcOff
    /\ window = <<>>
    /\ \E n \in 0..MaxRows : \E ivs \in [1..n -> SummaryIntervals] : args = [intervals |-> ivs]
    /\ verdict = None

NextSummary == GenerateAnalysisSummary

SpecSummary == InitSummary /\ [][NextSummary]_vars

\* next(stream) on the pipeline.
PipelineNext == ~Mocked /\ proc.pc = "next" /\ GenNext("batch")

\* Events a test double yields.
MockEvents ==
    {DataLoadingEvent("Loading data", None, None),
     IntervalCompletedEvent("Interval completed", [is_tower_jump |-> TRUE]),
     CompletionEvent("Analysis complete", [most_common_state |-> "NY"], 1, 1),
     ErrorEvent("Processing failed", "DataError", "Invalid format")}

\* What a test double returns: nothing, an empty list, a list of intervals.
MockValues == {None, Some(<<>>), Some(<<"interval 1", "interval 2">>)}

CliSamples == {Sample(0, NYC, Some("NY")), Sample(20, LA, Some("CA")), Sample(0, NoFix, Some("NY"))}

InitCli ==
    /\ config = DefaultConfig
    /\ now = 0
    /\ gen = [r \in Runs |-> GenInit]
    /\ stream = StreamInit
    /\ proc = [ProcOff EXCEPT !.pc = "init"]
    /\ window = <<>>
    /\ verdict = None
    /\ \/ /\ df \in SeqsUpTo(CliSamples, MaxLen) \cup {JumpInput}
          /\ fault \in Faults
          /\ args = <<>>
       \/ /\ df = <<>>
          /\ fault = NoFault
          /\ \E n \in 0..MaxRows : \E events \in [1..n -> MockEvents] :
                \E value \in MockValues : args = [events |-> events, value |-> value]

NextCli == ProcStart \/ MockNext \/ Dispatch \/ PipelineNext

SpecCli == InitCli /\ [][NextCli]_vars

\* Runs of many windows, next to the short ones, the empty input and one fault.
LongInputs ==
    {OnePerWindow(n) : n \in (1..MaxWindows) \cup {MaxRun, MaxRun + 1}} \cup {<<>>}

InitLong ==
    /\ df \in LongInputs
    /\ config = DefaultConfig
    /\ fault \in {NoFault, CHOOSE f \in Faults : f.stage = "metrics"}
    /\ now = 0
    /\ gen = [r \in Runs |-> GenInit]
    /\ stream = StreamInit
    /\ proc = ProcOff
    /\ window = <<>>
    /\ args = <<>>
    /\ verdict = None

NextLong == GenNext("batch")

SpecLong == InitLong /\ [][NextLong]_vars

\* TimeInterval objects handed to to_csv_row.
CsvIntervals ==
    {[start_time |-> 0, end_time |-> 15,
      estimated_state |-> st, is_tower_jump |-> j, confidence |-> c,
      record_count |-> n, states_observed |-> obs,
      max_distance_km |-> dist, max_speed_kmh |-> v] :
        st \in {"NY", "Unknown"}, j \in BOOLEAN, c \in {FInt(0), Frac(7, 10), FInt(1)},
        n \in {0, 2}, obs \in {<<>>, <<"NY">>, <<"NY", "CA">>},
        dist \in {None, Some(FInt(0)), Some(Frac(1, 8)), Some(Frac(39357, 10))},
        v \in {None, Some(FInt(0)), Some(FInt(200))}}

InitCsv ==
    /\ df = <<>>
    /\ config = DefaultConfig
    /\ fault = NoFault
    /\ now = 0
    /\ gen = [r \in Runs |-> GenInit]
    /\ stream = StreamInit
    /\ proc = ProcOff
    /\ window = <<>>
    /\ \E interval \in CsvIntervals : args = [interval |-> interval]
    /\ verdict = None

NextCsv == ToCsvRow

SpecCsv == InitCsv /\ [][NextCsv]_vars

-----------------------------------------------------------------------------
(* Properties of a batch run. *)

CountType(evs, t) == Cardinality({k \in 1..Len(evs) : evs[k].type = t})

IsPrefix(a, b) == Len(a) <= Len(b) /\ \A k \in 1..Len(a) : a[k] = b[k]

OfType(evs, t) == SelectSeq(evs, LAMBDA e : e.type = t)

\* A sample has a usable location: latitude and longitude present and non-zero.
HasLocation(r) ==
    /\ r.latitude # None /\ r.latitude # Some(0)
    /\ r.longitude # None /\ r.longitude # Some(0)

\* The run ended without an error event.
Succeeded(g) == g.pc = "returned" /\ CountType(g.events, "ERROR") = 0

\* C1: a run emits at most one error event; an error event is the last event
\* of its run, and a run that emitted one returns the empty list.
C1_ErrorOnceLastAndEmptyResult ==
    LET g == gen["batch"]
    IN  /\ CountType(g.events, "ERROR") <= 1
        /\ \A k \in 1..Len(g.events) : g.events[k].type = "ERROR" => k = Len(g.events)
        /\ (g.pc = "returned" /\ CountType(g.events, "ERROR") = 1) => g.ret = Some(<<>>)

C1_Witness ==
    LET g == gen["batch"]
    IN  /\ g.pc = "returned"
        /\ Last(g.events).type = "ERROR"
        /\ g.intervals # <<>>
        /\ g.ret = Some(<<>>)

\* C2: when no input sample has a usable location and the filter runs, the
\* run emits the opening data_loading event and then exactly one error event,
\* of kind DATA_ERROR with the message 'No records with location data found';
\* it emits no processing, window_creation, analysis_progress,
\* interval_completed or completion event and returns the empty list.
C2_NoLocationIsDataError ==
    LET g == gen["batch"]
    IN  ((\A k \in 1..Len(df) : ~HasLocation(df[k])) /\ ~Raises("filter", 0)) =>
            /\ \A k \in 1..Len(g.events) :
                   g.events[k].type \notin {"PROCESSING", "WINDOW_CREATION", "ANALYSIS_PROGRESS",
                                            "INTERVAL_COMPLETED", "COMPLETION"}
            /\ g.pc \in {"y64", "returned"} =>
                   /\ CountType(g.events, "ERROR") = 1
                   /\ Last(g.events).message = "No records with location data found"
                   /\ Last(g.events).data[1].error_type = "DATA_ERROR"
            /\ g.pc \in {"start", "y58", "y64", "returned"}
            /\ g.pc = "returned" => g.ret = Some(<<>>)

C2_Witness ==
    LET g == gen["batch"]
    IN  /\ df # <<>>
        /\ \E k \in 1..Len(df) : df[k].latitude = Some(0)
        /\ \A k \in 1..Len(df) : ~HasLocation(df[k])
        /\ g.pc = "returned"
        /\ Last(g.events).data[1].error_type = "DATA_ERROR"

\* The pipeline stage an event reports: 1 filtering, 2 distance calculation,
\* 3 anomaly detection, 4 windowing, 5 window classification, 6 completion;
\* 0 for an error event.
StageOf(e) ==
    IF e.type = "DATA_LOADING" THEN 1
    ELSE IF e.type = "PROCESSING"
         THEN IF e.data[1].step = "distance_calculation" THEN 2
              ELSE IF e.data[1].step = "anomaly_detection" THEN 3
              ELSE 4
    ELSE IF e.type = "WINDOW_CREATION" THEN 4
    ELSE IF e.type \in {"ANALYSIS_PROGRESS", "INTERVAL_COMPLETED"} THEN 5
    ELSE IF e.type = "COMPLETION" THEN 6
    ELSE 0

\* C3: the events of a run follow the stages in order and never go back: no
\* event of an earlier stage follows an event of a later stage, every stage
\* emits an event before the first event of the next stage, the per-window
\* events are those of windows 1, 2, ... in that order, and a run that
\* succeeds has visited every window and ends with the completion stage.
C3_StagesInOrder ==
    LET g == gen["batch"]
        P == SelectSeq(g.events, LAMBDA e : e.type # "ERROR")
        Q == SelectSeq(g.events, LAMBDA e :
                 e.type = "ANALYSIS_PROGRESS" /\ e.data[1].estimated_state # None)
        W == OfType(g.events, "WINDOW_CREATION")
    IN  /\ P # <<>> => StageOf(P[1]) = 1
        /\ \A j, k \in 1..Len(P) : j < k => StageOf(P[j]) <= StageOf(P[k])
        /\ \A k \in 1..Len(P) :
               StageOf(P[k]) > 1 => \E j \in 1..(k - 1) : StageOf(P[j]) = StageOf(P[k]) - 1
        /\ \A k \in 1..Len(Q) : Q[k].data[1].current_window = k
        /\ Succeeded(g) =>
               /\ StageOf(Last(P)) = 6
               /\ Len(W) = 1
               /\ Len(Q) = W[1].data[1].window_count

C3_Witness ==
    LET g == gen["batch"]
    IN  /\ Succeeded(g)
        /\ Len(g.windows) >= 2
        /\ \A st \in 1..6 : \E k \in 1..Len(g.events) : StageOf(g.events[k]) = st

\* C4: a run that ends without an error event has emitted exactly one
\* completion event, as its last event, and returns the classified
\* intervals; no run emits both a completion event and an error event.
C4_CompletionOnceLastAndResult ==
    LET g == gen["batch"]
    IN  /\ Succeeded(g) =>
               /\ CountType(g.events, "COMPLETION") = 1
               /\ Last(g.events).type = "COMPLETION"
               /\ g.ret = Some(g.intervals)
               /\ Len(g.ret[1]) = Last(g.events).data[1].total_intervals
        /\ CountType(g.events, "COMPLETION") <= 1
        /\ ~(CountType(g.events, "COMPLETION") > 0 /\ CountType(g.events, "ERROR") > 0)

C4_Witness ==
    LET g == gen["batch"]
    IN  /\ Succeeded(g)
        /\ Last(g.events).type = "COMPLETION"
        /\ g.ret # None /\ Len(g.ret[1]) >= 2

\* What an interval_completed event says of interval iv.
IntervalData(iv) ==
    [start_time |-> IsoFormat(iv.start_time),
     end_time |-> IsoFormat(iv.end_time),
     estimated_state |-> iv.estimated_state,
     is_tower_jump |-> iv.is_tower_jump,
     confidence |-> Round1(FMul(iv.confidence, FInt(100))),
     record_count |-> iv.record_count]

\* C5: in a successful run over N created windows (N as announced by the
\* window_creation event) the returned list holds N intervals with strictly
\* ascending start times, N interval_completed events were emitted, the k-th
\* of them describes the k-th returned interval, and the completion event's
\* total_intervals is N.
C5_OneIntervalPerWindowInOrder ==
    LET g == gen["batch"]
        W == OfType(g.events, "WINDOW_CREATION")
        IC == OfType(g.events, "INTERVAL_COMPLETED")
    IN  Succeeded(g) =>
            LET N == W[1].data[1].window_count
                R == g.ret[1]
            IN  /\ Len(R) = N
                /\ \A j, k \in 1..Len(R) : j < k => R[j].start_time < R[k].start_time
                /\ Len(IC) = N
                /\ \A k \in 1..Len(IC) : k <= Len(R) /\ IC[k].data[1] = IntervalData(R[k])
                /\ Last(g.events).data[1].total_intervals = N

C5_Witness ==
    LET g == gen["batch"]
    IN  /\ Succeeded(g)
        /\ Len(g.ret[1]) >= 5
        /\ CountType(g.events, "INTERVAL_COMPLETED") = Len(g.ret[1])

\* C8, the state part: once the code of a stage has raised, the last event is
\* the one error event of the run, its error_type is the exception's class
\* name and its details the exception's message, and a run that returns
\* after it returns the empty list.
C8_ErrorReported ==
    LET g == gen["batch"]
    IN  g.pc \in {"y223", "returned"} /\ CountType(g.events, "ERROR") > 0
           /\ fault # NoFault /\ Last(g.events).message # "No records with location data found"
        =>  /\ CountType(g.events, "ERROR") = 1
            /\ Last(g.events).type = "ERROR"
            /\ Last(g.events).data[1].error_type = fault.cls
            /\ Last(g.events).data[1].error_details = fault.msg
            /\ Last(g.events).message = "Analysis failed: " \o fault.msg
            /\ g.pc = "returned" => g.ret = Some(<<>>)

\* C8, the step part: a step only appends to the events already emitted,
\* nothing is emitted after an error event, and a stage that raises emits
\* the error event in that very step.
C8_EventsKept ==
    LET g == gen["batch"]
        h == gen'["batch"]
    IN  /\ IsPrefix(g.events, h.events)
        /\ CountType(g.events, "ERROR") > 0 => h.events = g.events
        /\ (h.pc = "y223" /\ g.pc # "y223") =>
               /\ Len(h.events) = Len(g.events) + 1
               /\ Last(h.events).type = "ERROR"

\* C8: an exception raised in any stage (filtering, metrics, anomaly
\* detection, windowing, classification of a window, summarising) leaves the
\* events already emitted in place, is followed by exactly one error event
\* carrying its class name and message and by no further event, and the run
\* returns the empty list even when intervals had been classified.
C8_ExceptionBecomesErrorEvent == [](C8_ErrorReported) /\ [][C8_EventsKept]_vars

C8_Witness ==
    LET g == gen["batch"]
    IN  /\ g.pc = "returned"
        /\ fault.stage = "classify" /\ fault.window = 2
        /\ Last(g.events).data[1].error_type = "TypeError"
        /\ Len(g.intervals) = 1
        /\ g.ret = Some(<<>>)

-----------------------------------------------------------------------------
(* Properties of a streaming run. *)

\* C6: the stream yields exactly the events its generator yields, in the same
\* order, each once and none lost: what it has yielded is always the
\* generator's events up to at most the one in flight, and when the stream
\* ends it has yielded them all, the final completion or error event
\* included; the end-of-generator tuple is not among them.
C6_StreamYieldsGeneratorEvents ==
    LET g == gen["stream"]
    IN  /\ IsPrefix(stream.out, g.events)
        /\ Len(g.events) - Len(stream.out) <= 1
        /\ stream.pc = "done" =>
               /\ g.pc = "returned"
               /\ Len(stream.out) = Len(g.events)
               /\ stream.out # <<>>
               /\ Last(stream.out).type \in {"COMPLETION", "ERROR"}
               /\ stream.final_value = g.ret

C6_Witness ==
    /\ stream.pc = "done"
    /\ Len(stream.out) >= 12
    /\ Last(stream.out).type = "COMPLETION"
    /\ stream.out = gen["stream"].events

BothDone == gen["batch"].pc = "returned" /\ stream.pc = "done"

\* The content of a serialised event other than its timestamp.
Content(d) == [type |-> d.type, message |-> d.message, data |-> d.data]

\* C7 as stated: for the same input and config, the batch run and the
\* streaming run give the same serialised events, timestamp included.
C7_IdenticalEventDicts ==
    BothDone =>
        /\ Len(gen["batch"].events) = Len(stream.out)
        /\ \A k \in 1..Len(stream.out) :
               to_dict(gen["batch"].events[k]) = to_dict(stream.out[k])

\* C7, amended: for the same input and config, the batch run and the
\* streaming run give the same number of events and, event for event, the
\* same serialised type, message and data.
C7_IdenticalEventContent ==
    BothDone =>
        /\ Len(gen["batch"].events) = Len(stream.out)
        /\ \A k \in 1..Len(stream.out) :
               Content(to_dict(gen["batch"].events[k])) = Content(to_dict(stream.out[k]))

C7_Witness ==
    /\ BothDone
    /\ Len(stream.out) >= 9
    /\ Last(stream.out).type = "COMPLETION"
    /\ \E k \in 1..Len(stream.out) :
           to_dict(gen["batch"].events[k]).timestamp # to_dict(stream.out[k]).timestamp

-----------------------------------------------------------------------------
(* Properties of detect_tower_jump_pattern. *)

Detected == verdict # None /\ verdict[1].fn = "detect_tower_jump_pattern"

DistinctRegions(w) == {w[i].state[1] : i \in {j \in 1..Len(w) : w[j].state # None}}

\* The changes between consecutive non-null regions of a window.
RegionChanges(w) ==
    LET s == NotNaStates(w)
    IN  Cardinality({i \in 1..(Len(s) - 1) : s[i] # s[i + 1]})

Calm(w) ==
    \A i \in 1..Len(w) : ~w[i].is_anomalous /\ ~FLt(config.max_speed_kmh, w[i].speed_kmh)

RegionsOf(w) == [i \in 1..Len(w) |-> w[i].state]

\* C9: for a window with fewer than 2 samples or at most one distinct
\* non-null region, detect_tower_jump_pattern returns False whatever the
\* speeds and anomaly flags are.
C9_NoJumpWithoutTwoRegions ==
    (Detected /\ (Len(window) < 2 \/ Cardinality(DistinctRegions(window)) <= 1))
        => verdict[1].value = FALSE

C9_Witness ==
    /\ Detected
    /\ Len(window) >= 2
    /\ Cardinality(DistinctRegions(window)) = 1
    /\ \E i \in 1..Len(window) : FLt(config.max_speed_kmh, window[i].speed_kmh)
    /\ \E i \in 1..Len(window) : window[i].is_anomalous
    /\ verdict[1].value = FALSE

\* C10: for a window with at least 2 samples and more than one distinct
\* non-null region, detect_tower_jump_pattern returns True exactly when some
\* speed exceeds max_speed_kmh, or some sample is anomalous, or there are more
\* than 2 changes between consecutive non-null regions; a calm window NY, CA,
\* NY (2 changes) gives False and a calm window NY, CA, TX, FL (3) gives True.
C10_JumpIffSpeedAnomalyOrChanges ==
    Detected =>
        /\ (Len(window) >= 2 /\ Cardinality(DistinctRegions(window)) > 1) =>
               (verdict[1].value = TRUE <=>
                    \/ \E i \in 1..Len(window) : FLt(config.max_speed_kmh, window[i].speed_kmh)
                    \/ \E i \in 1..Len(window) : window[i].is_anomalous
                    \/ RegionChanges(window) > 2)
        /\ (Calm(window) /\ RegionsOf(window) = <<Some("NY"), Some("CA"), Some("NY")>>)
               => verdict[1].value = FALSE
        /\ (Calm(window)
               /\ RegionsOf(window) = <<Some("NY"), Some("CA"), Some("TX"), Some("FL")>>)
               => verdict[1].value = TRUE

C10_Witness ==
    /\ Detected
    /\ Calm(window)
    /\ RegionsOf(window) = <<Some("NY"), Some("CA"), Some("TX"), Some("FL")>>
    /\ RegionChanges(window) = 3
    /\ verdict[1].value = TRUE

Counted == verdict # None /\ verdict[1].fn = "count_state_changes"

\* The changes of region met when reading the regions rs in order, skipping
\* nulls, after prev was the last region read (None before the first).
RECURSIVE ChangesAfter(_, _)
ChangesAfter(prev, rs) ==
    IF rs = <<>> THEN 0
    ELSE IF Head(rs) = None THEN ChangesAfter(prev, Tail(rs))
    ELSE (IF prev # None /\ prev # Head(rs) THEN 1 ELSE 0) + ChangesAfter(Head(rs), Tail(rs))

\* C13: count_state_changes returns the number of places where two
\* consecutive non-null regions differ, nulls removed first: 0 for an empty
\* window, one sample or one repeated region, 2 for three pairwise different
\* regions in a row, and 1 for NY, null, CA, CA.
C13_ChangesBetweenNonNullRegions ==
    Counted =>
        /\ verdict[1].value = ChangesAfter(None, RegionsOf(window))
        /\ Len(window) <= 1 => verdict[1].value = 0
        /\ Cardinality(DistinctRegions(window)) <= 1 => verdict[1].value = 0
        /\ (/\ Len(window) = 3
            /\ \A i \in 1..3 : window[i].state # None
            /\ Cardinality(DistinctRegions(window)) = 3) => verdict[1].value = 2
        /\ RegionsOf(window) = <<Some("NY"), None, Some("CA"), Some("CA")>>
               => verdict[1].value = 1

C13_Witness ==
    /\ Counted
    /\ RegionsOf(window) = <<Some("NY"), None, Some("CA"), Some("CA")>>
    /\ verdict[1].value = 1

-----------------------------------------------------------------------------
(* Properties of analyze_time_window and calculate_confidence. *)

Analyzed == verdict # None /\ verdict[1].fn = "analyze_time_window"

InSpan(r) == args.start_time <= r.utc_datetime /\ r.utc_datetime < args.end_time

\* C11: analyze_time_window on a window [start, end) that holds no sample
\* returns estimated_state "Unknown", is_tower_jump False, confidence 0,
\* record_count 0, no observed regions and no max distance or speed.
C11_EmptyWindowIsUnknown ==
    (Analyzed /\ \A i \in 1..Len(window) : ~InSpan(window[i]))
        => /\ verdict[1].value.estimated_state = "Unknown"
           /\ verdict[1].value.is_tower_jump = FALSE
           /\ verdict[1].value.confidence = FInt(0)
           /\ verdict[1].value.record_count = 0
           /\ verdict[1].value.states_observed = {}
           /\ verdict[1].value.max_distance_km = None
           /\ verdict[1].value.max_speed_kmh = None

\* A DataFrame with rows, all at the end of the window, which is exclusive.
C11_Witness ==
    /\ Analyzed
    /\ Len(window) >= 2
    /\ \A i \in 1..Len(window) :
          window[i].utc_datetime = args.end_time /\ window[i].state # None
    /\ verdict[1].value.record_count = 0

InUnitInterval(x) == FLe(FInt(0), x) /\ FLe(x, FInt(1))

\* C12: the confidence returned by calculate_confidence, and the confidence
\* of every interval analyze_time_window returns, is within [0, 1] for any
\* window contents and any weights.
C12_ConfidenceInUnitInterval ==
    /\ (verdict # None /\ verdict[1].fn = "calculate_confidence")
          => InUnitInterval(verdict[1].value)
    /\ Analyzed => InUnitInterval(verdict[1].value.confidence)

\* Weights whose sum exceeds 1 on a window where every term is positive.
C12_Witness ==
    /\ verdict # None
    /\ verdict[1].fn = "calculate_confidence"
    /\ config.state_consistency_weight = FInt(2)
    /\ Len(window) = MaxRows
    /\ \A i \in 1..Len(window) : window[i].state = Some("NY") /\ ~window[i].is_anomalous
    /\ verdict[1].estimated_state = "NY"
    /\ verdict[1].value = FInt(1)

-----------------------------------------------------------------------------
(* Properties of the utility functions. *)

Scored == verdict # None /\ verdict[1].fn = "add_distances_and_speeds"
Flagged == verdict # None /\ verdict[1].fn = "add_anomaly_detection"
ScoredAndFlagged == verdict # None /\ verdict[1].fn = "score_and_detect"
Windowed == verdict # None /\ verdict[1].fn = "create_time_windows"

\* The elapsed hours and the speed of row i > 1 of a scored frame v, computed
\* from the timestamps of rows i - 1 and i.
ElapsedHours(v, i) == Frac(v[i].utc_datetime - v[i - 1].utc_datetime, 60)

SpeedOver(v, i) ==
    IF FLt(FInt(0), ElapsedHours(v, i))
    THEN FDiv(v[i].distance_km, ElapsedHours(v, i))
    ELSE FInt(0)

OneHourApart == <<Sample(0, NYC, Some("NY")), Sample(60, LA, Some("NY"))>>

\* C14: add_distances_and_speeds gives every sample at index i > 0 of the
\* sorted sequence the elapsed time (t[i] - t[i-1]) in hours and the speed
\* distance/elapsed when elapsed > 0, else 0; the second of two samples at
\* (40.7128,-74.0060) and (34.0522,-118.2437) one hour apart gets a speed above
\* 1000 km/h and is flagged anomalous with a 128 km/h threshold.
C14_ElapsedAndSpeedFromPreviousSample ==
    /\ Scored =>
          /\ \A i \in 2..Len(verdict[1].value) :
                /\ verdict[1].value[i].time_diff_hours = ElapsedHours(verdict[1].value, i)
                /\ verdict[1].value[i].speed_kmh = SpeedOver(verdict[1].value, i)
          /\ df = OneHourApart => FLt(FInt(1000), verdict[1].value[2].speed_kmh)
    /\ (ScoredAndFlagged /\ df = OneHourApart /\ args.max_speed_kmh = FInt(128))
          => verdict[1].value[2].is_anomalous

\* C15: for every non-empty input the first sample of the sorted sequence
\* that add_distances_and_speeds returns has distance 0, elapsed time 0 and
\* speed 0.
C15_FirstSampleHasZeroMetrics ==
    (Scored /\ df # <<>>) =>
        /\ Len(verdict[1].value) = Len(df)
        /\ \A i \in 1..Len(df) : verdict[1].value[1].utc_datetime <= df[i].utc_datetime
        /\ verdict[1].value[1].distance_km = FInt(0)
        /\ verdict[1].value[1].time_diff_hours = FInt(0)
        /\ verdict[1].value[1].speed_kmh = FInt(0)

\* An unsorted input whose earliest sample is far from the others.
C15_Witness ==
    /\ Scored
    /\ Len(df) = 3
    /\ df[1].utc_datetime > df[3].utc_datetime
    /\ df[3].latitude # df[1].latitude
    /\ verdict[1].value[1] =
          [utc_datetime |-> df[3].utc_datetime, latitude |-> df[3].latitude,
           longitude |-> df[3].longitude, state |-> df[3].state,
           distance_km |-> FInt(0), time_diff_hours |-> FInt(0), speed_kmh |-> FInt(0)]
    /\ verdict[1].value[2].distance_km # FInt(0)

\* Less than 0.1 hours, for an elapsed time that is a number.
UnderSixMinutes(x) == x.den # 0 /\ 10 * x.num < x.den

\* C16: add_anomaly_detection flags a sample exactly when its speed is
\* above max_speed_kmh, or its distance is above min_distance_km and its
\* elapsed time is below 0.1 hours; with non-negative thresholds the first
\* sample of a scored frame is never flagged.
C16_AnomalousIffFastOrFarAndSudden ==
    /\ Flagged =>
          /\ Len(verdict[1].value) = Len(window)
          /\ \A i \in 1..Len(window) :
                verdict[1].value[i].is_anomalous <=>
                    \/ FLt(args.max_speed_kmh, window[i].speed_kmh)
                    \/ /\ FLt(args.min_distance_km, window[i].distance_km)
                       /\ UnderSixMinutes(window[i].time_diff_hours)
    /\ (/\ ScoredAndFlagged
        /\ df # <<>>
        /\ FLe(FInt(0), args.max_speed_kmh)
        /\ FLe(FInt(0), args.min_distance_km)) => ~verdict[1].value[1].is_anomalous

\* A frame with a row just at 0.1 hours that is not flagged and a row under
\* it that is.
C16_Witness ==
    /\ Flagged
    /\ Len(window) = 2
    /\ args.max_speed_kmh = FInt(128)
    /\ window[1].speed_kmh = FInt(128)
    /\ window[1].distance_km = Frac(39357, 10)
    /\ window[1].time_diff_hours = Frac(1, 10)
    /\ ~verdict[1].value[1].is_anomalous
    /\ window[2].speed_kmh = FInt(0)
    /\ window[2].distance_km = Frac(39357, 10)
    /\ window[2].time_diff_hours = FInt(0)
    /\ verdict[1].value[2].is_anomalous

\* C17: create_time_windows with width W returns one pair
\* (bin_start, bin_start + W) for every bin of the W-minute grid that holds a
\* sample and none for a bin without samples, in strictly ascending order of
\* bin_start; for empty input it returns the empty list.
C17_OneWindowPerOccupiedBin ==
    Windowed =>
        LET windows == verdict[1].value
            W == args.window_minutes
        IN  /\ df = <<>> => windows = <<>>
            /\ \A k \in 1..Len(windows) :
                  /\ windows[k][1] % W = 0
                  /\ windows[k][2] = windows[k][1] + W
                  /\ \E i \in 1..Len(df) :
                        windows[k][1] <= df[i].utc_datetime /\ df[i].utc_datetime < windows[k][2]
            /\ \A i \in 1..Len(df) : \E k \in 1..Len(windows) :
                  windows[k][1] <= df[i].utc_datetime /\ df[i].utc_datetime < windows[k][2]
            /\ \A k \in 1..(Len(windows) - 1) : windows[k][1] < windows[k + 1][1]

\* Samples given out of order, with empty bins between the occupied ones.
C17_Witness ==
    /\ Windowed
    /\ args.window_minutes = 15
    /\ Len(df) = 3
    /\ df[1].utc_datetime = 60 /\ df[2].utc_datetime = 0 /\ df[3].utc_datetime = 5
    /\ verdict[1].value = <<<<0, 15>>, <<60, 75>>>>

-----------------------------------------------------------------------------
(* Properties of generate_analysis_summary. *)

Summarised == verdict # None /\ verdict[1].fn = "generate_analysis_summary"

\* The intervals of ivs estimated as region st.
EstimatedAs(ivs, st) == {k \in 1..Len(ivs) : ivs[k].estimated_state = st}

\* The sum of the confidences of the first k intervals.
RECURSIVE ConfidenceOfFirst(_, _)
ConfidenceOfFirst(ivs, k) ==
    IF k = 0 THEN FInt(0) ELSE FAdd(ConfidenceOfFirst(ivs, k - 1), ivs[k].confidence)

\* C18: generate_analysis_summary returns {} for an empty list; otherwise
\* total_intervals is the list length, tower_jump_intervals the number of
\* intervals flagged as jumps, tower_jump_percentage 100 * jumps / total,
\* average_confidence the mean confidence, and most_common_state a most
\* frequent estimated state other than "Unknown", or "Unknown" when every
\* interval is "Unknown".
C18_SummaryOfIntervals ==
    Summarised =>
        LET ivs == args.intervals
            summary == verdict[1].value
            n == Len(ivs)
            jumps == Cardinality({k \in 1..n : ivs[k].is_tower_jump})
            known == {ivs[k].estimated_state : k \in 1..n} \ {"Unknown"}
        IN  /\ n = 0 => summary = <<>>
            /\ n > 0 =>
                  /\ summary.total_intervals = n
                  /\ summary.tower_jump_intervals = jumps
                  /\ FMul(summary.tower_jump_percentage, FInt(n)) = FInt(100 * jumps)
                  /\ FMul(summary.average_confidence, FInt(n)) = ConfidenceOfFirst(ivs, n)
                  /\ known = {} => summary.most_common_state = "Unknown"
                  /\ known # {} =>
                        /\ summary.most_common_state \in known
                        /\ \A st \in known :
                              Cardinality(EstimatedAs(ivs, st))
                                  <= Cardinality(EstimatedAs(ivs, summary.most_common_state))

\* "Unknown" is the most frequent estimate, and a region is reported.
C18_Witness ==
    /\ Summarised
    /\ Len(args.intervals) = 3
    /\ Cardinality(EstimatedAs(args.intervals, "Unknown")) = 2
    /\ Cardinality({k \in 1..3 : args.intervals[k].is_tower_jump}) = 1
    /\ args.intervals[3].estimated_state = "CA"
    /\ verdict[1].value.most_common_state = "CA"
    /\ verdict[1].value.tower_jump_percentage = Frac(100, 3)
    /\ verdict[1].value.average_confidence = Frac(1, 2)

-----------------------------------------------------------------------------
(* Properties of the summary and of the processing events of a batch run. *)

\* The summary carried by the completion event of a successful run.
SummaryOf(g) == Last(g.events).data[1].summary

\* C19: the states_observed of the summary of a successful run is exactly the
\* set of regions other than "Unknown" observed in the classified intervals,
\* without duplicates.
C19_SummaryStatesAreObservedRegions ==
    LET g == gen["batch"]
    IN  Succeeded(g) =>
            LET listed == SummaryOf(g).states_observed
                intervals == g.ret[1]
                observed == UNION {intervals[k].states_observed : k \in 1..Len(intervals)}
            IN  /\ Range(listed) = observed \ {"Unknown"}
                /\ Cardinality(Range(listed)) = Len(listed)

StepsOf(g) ==
    LET P == OfType(g.events, "PROCESSING")
    IN  {P[k].data[1].step : k \in 1..Len(P)}

\* C20 as stated: every processing event carries the step name
\* distance_calculation or anomaly_detection.
C20_ProcessingStepsAreTwo ==
    StepsOf(gen["batch"]) \subseteq {"distance_calculation", "anomaly_detection"}

\* C20, amended: every processing event carries the step name
\* distance_calculation, anomaly_detection or window_creation.
C20_ProcessingStepsAreThree ==
    StepsOf(gen["batch"]) \subseteq {"distance_calculation", "anomaly_detection", "window_creation"}

C20_Witness ==
    /\ Succeeded(gen["batch"])
    /\ Len(OfType(gen["batch"].events, "PROCESSING")) = 5
    /\ StepsOf(gen["batch"]) = {"distance_calculation", "anomaly_detection", "window_creation"}

-----------------------------------------------------------------------------
(* Properties of process_stream. *)

\* The events the stream has yielded to process_stream so far, and the value
\* it returns when it ends.
YieldedToProc ==
    IF Mocked
    THEN SubSeq(args.events, 1, IF proc.pulled < Len(args.events)
                                THEN proc.pulled ELSE Len(args.events))
    ELSE gen["batch"].events

FinalValueForProc == IF Mocked THEN args.value ELSE gen["batch"].ret

StreamEnded ==
    IF Mocked THEN proc.pulled > Len(args.events) ELSE gen["batch"].pc = "returned"

DispatchedEvents == [k \in 1..Len(proc.calls) |-> proc.calls[k].event]

\* C21: on a stream without an error event process_stream dispatches every
\* event once, in the order the stream yields them, each to the handler of its
\* type, and then returns the stream's return value, or the empty list when
\* the stream ended without one.
C21_DispatchInOrderThenReturn ==
    CountType(YieldedToProc, "ERROR") = 0 =>
        /\ IsPrefix(DispatchedEvents, YieldedToProc)
        /\ Len(DispatchedEvents) >= Len(YieldedToProc) - 1
        /\ \A k \in 1..Len(proc.calls) :
              proc.calls[k].handler = HandlerOf(proc.calls[k].event.type)
        /\ proc.raised = None
        /\ StreamEnded =>
              /\ proc.pc = "returned"
              /\ DispatchedEvents = YieldedToProc
              /\ proc.ret = Some(IF FinalValueForProc = None THEN <<>>
                                 ELSE FinalValueForProc[1])
        /\ proc.pc = "returned" => StreamEnded

\* A test double that yields three events and returns a list.
C21_Witness ==
    /\ Mocked
    /\ proc.pc = "returned"
    /\ Len(args.events) = 3
    /\ args.events[1] # args.events[2]
    /\ DispatchedEvents = args.events
    /\ args.value # None /\ args.value # Some(<<>>)
    /\ proc.ret = args.value

\* C22: when the stream yields an error event, process_stream raises
\* AnalysisError with the text "<error_type>: <message>" of that event after
\* it dispatched every earlier event; it pulls nothing more from the stream
\* and returns no list.
C22_ErrorEventRaisesAnalysisError ==
    /\ CountType(DispatchedEvents, "ERROR") > 0 => proc.pc = "raised"
    /\ (CountType(YieldedToProc, "ERROR") > 0 /\ proc.pc # "dispatch") => proc.pc = "raised"
    /\ proc.pc = "raised" =>
          LET e == Last(DispatchedEvents)
          IN  /\ e.type = "ERROR"
              /\ CountType(DispatchedEvents, "ERROR") = 1
              /\ proc.raised = Some(e.data[1].error_type \o ": " \o e.message)
              /\ DispatchedEvents = YieldedToProc
              /\ proc.pulled = Len(DispatchedEvents)
              /\ ~StreamEnded
              /\ proc.ret = None

\* The pipeline fails in a late stage: the events before the error event
\* were dispatched, the generator was not resumed after it.
C22_Witness ==
    /\ ~Mocked
    /\ proc.pc = "raised"
    /\ Len(proc.calls) >= 5
    /\ gen["batch"].pc = "y223"
    /\ proc.raised = Some(fault.cls \o ": Analysis failed: " \o fault.msg)

-----------------------------------------------------------------------------
(* Properties of analyze_tower_jumps_stream when the pipeline raises. *)

PipelineRaised ==
    \/ RaisesOnCreate /\ stream.pc # "init"
    \/ gen["stream"].pc = "raised"

\* C23: if creating or advancing the pipeline raises an exception inside
\* analyze_tower_jumps_stream, the stream yields, after the events it had
\* yielded, one error event whose message starts with "Analysis error" and
\* whose error_type is the class name of the exception, and then ends; the
\* exception does not reach the consumer.
C23_AdapterTurnsExceptionIntoErrorEvent ==
    (PipelineRaised /\ IsException(fault.cls)) =>
        /\ stream.pc \in {"except", "failed", "done"}
        /\ stream.pc \in {"failed", "done"} =>
              stream.out = Append(gen["stream"].events,
                                  ErrorEvent("Analysis error: " \o fault.msg,
                                             fault.cls, fault.msg))
        /\ stream.pc = "except" => stream.out = gen["stream"].events

C23_Witness ==
    /\ gen["stream"].pc = "raised"
    /\ stream.pc = "done"
    /\ Len(stream.out) = 3
    /\ Last(stream.out).type = "ERROR"
    /\ Last(stream.out).data[1].error_type = "RuntimeError"

-----------------------------------------------------------------------------
(* Properties of TimeInterval.to_csv_row. *)

Rendered == verdict # None /\ verdict[1].fn = "to_csv_row"

\* The digits of a non-negative number with two decimals, rounded half to even.
TwoDecimals(x) ==
    LET cents == (x.num * 100) \div x.den
        rest == (x.num * 100) % x.den
        up == 2 * rest > x.den \/ (2 * rest = x.den /\ cents % 2 = 1)
        c == IF up THEN cents + 1 ELSE cents
    IN  ToString(c \div 100) \o "." \o (IF c % 100 < 10 THEN "0" ELSE "") \o ToString(c % 100)

\* C24: to_csv_row renders max_distance_km and max_speed_kmh as a blank
\* string exactly when the value is None, renders every present value with two
\* decimals, and renders is_tower_jump as "yes" or "no".
C24_BlankIffAbsent ==
    Rendered =>
        LET iv == args.interval
            row == verdict[1].value
        IN  /\ row.max_distance_km = "" <=> iv.max_distance_km = None
            /\ row.max_speed_kmh = "" <=> iv.max_speed_kmh = None
            /\ iv.max_distance_km # None => row.max_distance_km = TwoDecimals(iv.max_distance_km[1])
            /\ iv.max_speed_kmh # None => row.max_speed_kmh = TwoDecimals(iv.max_speed_kmh[1])
            /\ row.is_tower_jump = (IF iv.is_tower_jump THEN "yes" ELSE "no")

-----------------------------------------------------------------------------
(* Properties of the analysis loop. *)

\* The progress event without a state estimate: the coarse marker.
IsCoarse(e) == e.type = "ANALYSIS_PROGRESS" /\ e.data[1].estimated_state = None

MarkerExpected(i, n) ==
    \/ i % 100 = 0
    \/ i = 1
    \/ i = n \div 4
    \/ i = n \div 2
    \/ i = (3 * n) \div 4
    \/ i = n

\* C25: after the events of window i a coarse progress marker follows exactly
\* when i is a multiple of 100 or one of 1, N div 4, N div 2, 3N div 4, N; a
\* window gets at most one marker and the last window always gets one.
C25_CoarseMarkerWindows ==
    LET g == gen["batch"]
        ev == g.events
        n == g.total_windows
    IN  /\ \A k \in 2..Len(ev) : IsCoarse(ev[k]) => ev[k - 1].type = "INTERVAL_COMPLETED"
        /\ \A k \in 2..(Len(ev) - 1) :
               ev[k].type = "INTERVAL_COMPLETED" =>
                   LET i == ev[k - 1].data[1].current_window
                       marked == IsCoarse(ev[k + 1]) /\ ev[k + 1].data[1].current_window = i
                   IN  /\ marked <=> MarkerExpected(i, n)
                       /\ i = n => marked

C25_Witness ==
    LET g == gen["batch"]
    IN  /\ g.pc = "returned"
        /\ g.total_windows = MaxRun + 1
        /\ \E k \in 1..Len(g.events) :
               /\ IsCoarse(g.events[k])
               /\ g.events[k].data[1].current_window = 100
        /\ Last(g.events).type = "COMPLETION"

-----------------------------------------------------------------------------
(* Properties of calculate_confidence and estimate_most_likely_state. *)

Confided == verdict # None /\ verdict[1].fn = "calculate_confidence"

Clamp01(x) == IF FLt(x, FInt(0)) THEN FInt(0) ELSE IF FLt(FInt(1), x) THEN FInt(1) ELSE x

\* C26: with at least one sample that has a region, calculate_confidence is
\* clamp01(w_consistency * consistency + w_count * count_factor + w_anomaly *
\* anomaly_penalty), consistency being the share of the samples with a region
\* that are in the estimated region, count_factor min(n / 10, 1) and
\* anomaly_penalty max(0, 1 - anomalous / n); without such a sample it is 0.
C26_ConfidenceFormula ==
    Confided =>
        LET n == Len(window)
            located == {i \in 1..n : window[i].state # None}
            matching == {i \in located : window[i].state = Some(verdict[1].estimated_state)}
            anomalous == {i \in 1..n : window[i].is_anomalous}
            consistency == Frac(Cardinality(matching), Cardinality(located))
            count_factor == IF n >= 10 THEN FInt(1) ELSE Frac(n, 10)
            anomaly_penalty == Frac(n - Cardinality(anomalous), n)
        IN  IF located = {}
            THEN verdict[1].value = FInt(0)
            ELSE verdict[1].value =
                    Clamp01(FAdd(FMul(config.state_consistency_weight, consistency),
                                 FAdd(FMul(config.record_count_weight, count_factor),
                                      FMul(config.duration_weight, anomaly_penalty))))

\* More than ten samples, half of them in the estimated region, some anomalous.
C26_Witness ==
    /\ Confided
    /\ Len(window) = MaxDense
    /\ config = DefaultConfig
    /\ verdict[1].estimated_state = "NY"
    /\ Cardinality({i \in 1..Len(window) : window[i].state = Some("NY")}) = 6
    /\ \E i \in 1..Len(window) : window[i].is_anomalous
    /\ FLt(FInt(0), verdict[1].value)
    /\ FLt(verdict[1].value, FInt(1))

Estimated == verdict # None /\ verdict[1].fn = "estimate_most_likely_state"

Occurrences(region) == Cardinality({i \in 1..Len(window) : window[i].state = Some(region)})

FirstSeen(region) ==
    CHOOSE i \in 1..Len(window) :
        window[i].state = Some(region) /\ \A j \in 1..(i - 1) : window[j].state # Some(region)

RegionsSeen == {window[i].state[1] : i \in {j \in 1..Len(window) : window[j].state # None}}

\* C27: estimate_most_likely_state returns a region that occurs in the window
\* at least as often as every other region, "Unknown" when the window is empty
\* or no sample has a region, and among regions tied for the largest count the
\* one seen first in the window.
C27_MostFrequentRegionFirstOnTie ==
    Estimated =>
        LET v == verdict[1].value
        IN  IF RegionsSeen = {}
            THEN v = "Unknown"
            ELSE /\ v \in RegionsSeen
                 /\ \A r \in RegionsSeen : Occurrences(v) >= Occurrences(r)
                 /\ \A r \in RegionsSeen \ {v} :
                        Occurrences(r) = Occurrences(v) => FirstSeen(v) < FirstSeen(r)

\* Two regions with two samples each; the one returned starts the window.
C27_Witness ==
    /\ Estimated
    /\ Len(window) = 4
    /\ window[1].state = Some("CA")
    /\ Occurrences("CA") = 2
    /\ Occurrences("NY") = 2
    /\ verdict[1].value = "CA"

-----------------------------------------------------------------------------
(* Properties of a successful run. *)

\* The rows of the input that have a usable location.
LocatedRows ==
    {i \in 1..Len(df) :
        /\ df[i].latitude \notin {None, Some(0)}
        /\ df[i].longitude \notin {None, Some(0)}}

Within(i, interval) ==
    interval.start_time <= df[i].utc_datetime /\ df[i].utc_datetime < interval.end_time

RECURSIVE TotalRecords(_)
TotalRecords(intervals) ==
    IF intervals = <<>> THEN 0
    ELSE Head(intervals).record_count + TotalRecords(Tail(intervals))

\* C28: in a successful run the windows of the returned intervals are
\* half-open and pairwise disjoint, each holds at least one located sample,
\* every located sample lies in exactly one of them, and the record counts of
\* the intervals add up to the number of located samples.
C28_EverySampleInOneInterval ==
    LET g == gen["batch"]
    IN  Succeeded(g) =>
            LET R == g.ret[1]
            IN  /\ \A j, k \in 1..Len(R) :
                       j # k => \/ R[j].end_time <= R[k].start_time
                                \/ R[k].end_time <= R[j].start_time
                /\ \A k \in 1..Len(R) : \E i \in LocatedRows : Within(i, R[k])
                /\ \A i \in LocatedRows :
                       Cardinality({k \in 1..Len(R) : Within(i, R[k])}) = 1
                /\ \A k \in 1..Len(R) :
                       R[k].record_count = Cardinality({i \in LocatedRows : Within(i, R[k])})
                /\ TotalRecords(R) = Cardinality(LocatedRows)

\* A successful run over several windows.
C28_Witness ==
    LET g == gen["batch"]
    IN  /\ Succeeded(g)
        /\ Len(g.ret[1]) >= 3
        /\ TotalRecords(g.ret[1]) = Len(df)

\* C29: in a successful run the completion event's tower_jumps_detected is
\* the number of interval_completed events flagged as jumps and the summary's
\* tower_jump_intervals, its tower_jump_percentage is the summary's, and at
\* any moment the jump counter is at most the number of windows analysed.
C29_JumpCountsAgree ==
    LET g == gen["batch"]
    IN  /\ g.tower_jumps_detected <= Len(g.intervals)
        /\ g.tower_jumps_detected <= CountType(g.events, "ANALYSIS_PROGRESS")
        /\ Succeeded(g) =>
               LET completion == Last(g.events).data[1]
                   IC == OfType(g.events, "INTERVAL_COMPLETED")
               IN  /\ completion.tower_jumps_detected =
                          Cardinality({k \in 1..Len(IC) : IC[k].data[1].is_tower_jump})
                   /\ completion.tower_jumps_detected = completion.summary.tower_jump_intervals
                   /\ completion.tower_jump_percentage =
                          completion.summary.tower_jump_percentage

\* A successful run with one of its two windows classified as a jump.
C29_Witness ==
    LET g == gen["batch"]
    IN  /\ Succeeded(g)
        /\ Last(g.events).data[1].tower_jumps_detected = 1
        /\ Last(g.events).data[1].total_intervals = 2
        /\ Last(g.events).data[1].tower_jump_percentage = FInt(50)

\* The positions of the events of type t before position k.
Before(evs, t, k) == {j \in 1..(k - 1) : evs[j].type = t}

Latest(positions) == CHOOSE j \in positions : \A i \in positions : i <= j

\* C30: every analysis_progress event carries the window_count of the
\* window_creation event before it as total_windows and a current_window in
\* 1..total_windows; current_window never decreases along the run, and the
\* last analysis_progress event before the completion event has current_window
\* equal to total_windows, which is 100 percent.
C30_ProgressCountsWindows ==
    LET ev == gen["batch"].events
    IN  \A k \in 1..Len(ev) :
            /\ ev[k].type = "ANALYSIS_PROGRESS" =>
                   LET p == ev[k].data[1]
                       created == Before(ev, "WINDOW_CREATION", k)
                   IN  /\ created # {}
                       /\ p.total_windows = ev[Latest(created)].data[1].window_count
                       /\ p.current_window \in 1..p.total_windows
                       /\ \A j \in Before(ev, "ANALYSIS_PROGRESS", k) :
                              ev[j].data[1].current_window <= p.current_window
            /\ ev[k].type = "COMPLETION" =>
                   LET progress == Before(ev, "ANALYSIS_PROGRESS", k)
                       created == Before(ev, "WINDOW_CREATION", k)
                   IN  (created # {} /\ ev[Latest(created)].data[1].window_count >= 1) =>
                           /\ progress # {}
                           /\ ev[Latest(progress)].data[1].current_window =
                                  ev[Latest(progress)].data[1].total_windows
                           /\ ev[Latest(progress)].data[1].progress_percentage = Round1(FInt(100))

\* A completed run over MaxWindows windows with per-window events and markers.
C30_Witness ==
    LET g == gen["batch"]
    IN  /\ Succeeded(g)
        /\ g.total_windows = MaxWindows
        /\ CountType(g.events, "ANALYSIS_PROGRESS") > MaxWindows
        /\ \E k \in 1..Len(g.events) :
               /\ g.events[k].type = "ANALYSIS_PROGRESS"
               /\ g.events[k].data[1].current_window = 2
               /\ g.events[k].data[1].total_windows = MaxWindows

====
